---- MODULE Spec2Model ----
(***************************************************************************)
(* Share catalog of databend (src/meta/api/src/share_api_impl.rs): the     *)
(* ShareApi operations as retrying compare-and-swap transactions over a    *)
(* versioned key-value store, run by concurrent callers.  Every KV call    *)
(* (get, fetch_id, txn) of an operation is one step of the caller.         *)
(***************************************************************************)
EXTENDS Integers, Sequences, FiniteSets, TLC

(***************************************************************************)
(* Bounds and the universe of request values.                              *)
(***************************************************************************)
\* Total number of ShareApi calls started in one behaviour.
MaxCalls == 3

\* Number of create_share calls of one name started in a race of creators.
MaxCreators == 3

\* Number of ShareApi calls started against the interfering store.
MaxVictimCalls == 1

\* Number of add_share_tenants calls of one account started in a race.
MaxAdders == 3

\* crate::TXN_MAX_RETRY_TIMES, declared in the crate root: the retry budget.
TXN_MAX_RETRY_TIMES == 10

Procs == {"p1", "p2"}

Tenant == "A"
Accounts == {"A", "B", "C"}
ShareNames == {<<Tenant, "s1">>, <<Tenant, "s2">>}
AccountLists == {<<>>, <<"A">>, <<"B">>, <<"C">>, <<"B", "C", "A">>}

Privileges == {"USAGE", "SELECT"}
PrivilegeSets == (SUBSET Privileges) \ {{}}

\* Object names a request can carry: ShareGrantObjectName::Database(db_name)
\* and ShareGrantObjectName::Table(db_name, table_name).
DbName(d) == [kind |-> "Database", db |-> d, table |-> ""]
TableName(d, t) == [kind |-> "Table", db |-> d, table |-> t]
ObjectNames ==
    {DbName("d1"), DbName("d2"), DbName("dx"),
     TableName("d1", "t1"), TableName("d2", "t2"), TableName("d1", "tx"),
     TableName("dx", "t1")}

(***************************************************************************)
(* Key schema.  A key is kind + tenant/account + name + id; every kind is  *)
(* a disjoint key space.                                                   *)
(***************************************************************************)
Key(k, t, s, n) == [k |-> k, t |-> t, s |-> s, n |-> n]
ShareNameIdent(name) == Key("ShareNameIdent", name[1], name[2], 0)
ShareId(share_id) == Key("ShareId", "", "", share_id)
ShareIdToName(share_id) == Key("ShareIdToName", "", "", share_id)
ShareAccountNameIdent(account, share_id) == Key("ShareAccountNameIdent", account, "", share_id)
DatabaseNameIdent(tenant, db_name) == Key("DatabaseNameIdent", tenant, db_name, 0)
DatabaseId(db_id) == Key("DatabaseId", "", "", db_id)
DBIdTableName(db_id, table_name) == Key("DBIdTableName", "", table_name, db_id)
TableId(table_id) == Key("TableId", "", "", table_id)

\* ShareGrantObject::Database(db_id) | ShareGrantObject::Table(table_id); the
\* object is itself the key of its ObjectSharedByShareIds record.
ShareGrantObject(kind, id) == [kind |-> kind, id |-> id]
ObjectKey(object) == Key("ShareGrantObject", "", object.kind, object.id)

VARIABLES
    kv,        \* key -> [seq, hw, val]: the KV; seq = 0 is an absent record
    id_gen,    \* last id handed out by fetch_id(IdGenerator::share_id())
    proc,      \* per caller: position, request and the values of this attempt
    calls,     \* calls started so far
    ret        \* the call that returned in the last step, if one did

vars == <<kv, id_gen, proc, calls, ret>>

(***************************************************************************)
(* KV adapter: get, fetch_id and the conditional transaction.              *)
(***************************************************************************)
NoVal == [none |-> TRUE]
Absent == [seq |-> 0, hw |-> 0, val |-> NoVal]

\* get_u64_value / get_struct_value: (seq, value), seq 0 when absent.
Get(store, key) == IF key \in DOMAIN store THEN store[key] ELSE Absent
GetSeq(key) == Get(kv, key).seq
GetVal(key) == Get(kv, key).val
Exists(key) == GetSeq(key) > 0

txn_cond_seq(key, seq) == [key |-> key, seq |-> seq]
txn_op_put(key, val) == [op |-> "put", key |-> key, val |-> val]
txn_op_del(key) == [op |-> "del", key |-> key, val |-> NoVal]
TxnRequest(condition, if_then) == [condition |-> condition, if_then |-> if_then]

\* One write: a put stores the value under the key's next seq, a delete
\* leaves the key absent; seqs of a key are never reused.
ApplyOp(store, o) ==
    LET old == Get(store, o.key)
        new == IF o.op = "put"
               THEN [seq |-> old.hw + 1, hw |-> old.hw + 1, val |-> o.val]
               ELSE [seq |-> 0, hw |-> old.hw, val |-> NoVal]
    IN  [x \in DOMAIN store \cup {o.key} |-> IF x = o.key THEN new ELSE store[x]]

RECURSIVE ApplyOps(_, _)
ApplyOps(store, ops) ==
    IF ops = <<>> THEN store ELSE ApplyOps(ApplyOp(store, Head(ops)), Tail(ops))

\* send_txn: succ iff every condition holds; then if_then is applied atomically.
TxnSucc(txn_req) ==
    \A i \in 1..Len(txn_req.condition) :
        GetSeq(txn_req.condition[i].key) = txn_req.condition[i].seq
TxnStore(txn_req) == IF TxnSucc(txn_req) THEN ApplyOps(kv, txn_req.if_then) ELSE kv

(***************************************************************************)
(* Share meta model.                                                       *)
(***************************************************************************)
None == <<>>
Some(x) == <<x>>
IsSome(o) == o # <<>>
Unwrap(o) == o[1]

ShareGrantEntry(object, privileges) == [object |-> object, privileges |-> privileges]

\* ShareMeta::new(create_on, comment): no accounts, no database, no entries.
ShareMetaNew == [accounts |-> {}, database |-> None, entries |-> {}]

\* ShareMeta.has_account / add_account / del_account / get_accounts (a BTreeSet,
\* listed in order).
has_account(share_meta, account) == account \in share_meta.accounts
add_account(share_meta, account) ==
    [share_meta EXCEPT !.accounts = @ \cup {account}]
del_account(share_meta, account) ==
    [share_meta EXCEPT !.accounts = @ \ {account}]
AccountOrder == <<"A", "B", "C">>
InSet(S) == [a \in Accounts |-> a \in S]
get_accounts(share_meta) ==
    LET in == InSet(share_meta.accounts)
        Test(a) == in[a]
    IN  SelectSeq(AccountOrder, Test)

\* ShareMeta.get_grant_entry(object): the database entry or the table entry.
get_grant_entry(share_meta, object) ==
    IF object.kind = "Database"
    THEN IF IsSome(share_meta.database) /\ Unwrap(share_meta.database).object = object
         THEN share_meta.database ELSE None
    ELSE IF \E e \in share_meta.entries : e.object = object
         THEN Some(CHOOSE e \in share_meta.entries : e.object = object)
         ELSE None

\* ShareMeta.grant_object_privileges: a database grant replaces `database` by a
\* fresh entry (refused when another database is granted); a table grant
\* upserts into `entries`, OR-merging the privilege bits.
grant_object_privileges(share_meta, object, privileges) ==
    IF object.kind = "Database"
    THEN IF IsSome(share_meta.database) /\ Unwrap(share_meta.database).object # object
         THEN share_meta
         ELSE [share_meta EXCEPT !.database = Some(ShareGrantEntry(object, privileges))]
    ELSE LET old == get_grant_entry(share_meta, object)
             bits == IF IsSome(old) THEN Unwrap(old).privileges \cup privileges
                     ELSE privileges
         IN  [share_meta EXCEPT !.entries =
                 {e \in @ : e.object # object} \cup {ShareGrantEntry(object, bits)}]

\* ShareMeta.revoke_object_privileges: clears the bits; an entry left without
\* bits is removed; the database entry can go only when no table entry is
\* left, otherwise WrongShareObject.  Returns [ok, share_meta].
revoke_object_privileges(share_meta, object, privileges) ==
    LET old == get_grant_entry(share_meta, object)
        bits == IF IsSome(old) THEN Unwrap(old).privileges \ privileges ELSE {}
    IN  IF ~IsSome(old) THEN [ok |-> TRUE, share_meta |-> share_meta]
        ELSE IF object.kind = "Database"
        THEN IF bits # {}
             THEN [ok |-> TRUE,
                   share_meta |-> [share_meta EXCEPT
                       !.database = Some(ShareGrantEntry(object, bits))]]
             ELSE IF share_meta.entries # {}
                  THEN [ok |-> FALSE, share_meta |-> share_meta]
                  ELSE [ok |-> TRUE, share_meta |-> [share_meta EXCEPT !.database = None]]
        ELSE [ok |-> TRUE,
              share_meta |-> [share_meta EXCEPT !.entries =
                  {e \in @ : e.object # object} \cup
                  (IF bits # {} THEN {ShareGrantEntry(object, bits)} ELSE {})]]

\* ShareGrantObject::new(&seq_and_id)
ObjectOf(seq_and_id) == ShareGrantObject(seq_and_id.kind, seq_and_id.id)

\* ShareMeta.has_granted_privileges: "ok" FALSE is WrongShareObject (the stored
\* database grant has another id); otherwise `has` tells whether the stored
\* entry of that object holds every requested bit.
has_granted_privileges(share_meta, seq_and_id, privileges) ==
    IF seq_and_id.kind = "Database"
    THEN IF ~IsSome(share_meta.database) THEN [ok |-> TRUE, has |-> FALSE]
         ELSE IF Unwrap(share_meta.database).object.id # seq_and_id.id
              THEN [ok |-> FALSE, has |-> FALSE]
              ELSE [ok |-> TRUE,
                    has |-> privileges \subseteq Unwrap(share_meta.database).privileges]
    ELSE LET e == get_grant_entry(share_meta, ObjectOf(seq_and_id))
         IN  [ok |-> TRUE, has |-> IsSome(e) /\ privileges \subseteq Unwrap(e).privileges]

\* ShareAccountMeta::new(account, share_id, share_on)
ShareAccountMeta(account, share_id) == [account |-> account, share_id |-> share_id]

\* ObjectSharedByShareIds and DbMeta (only shared_by is used here).
ObjectSharedByShareIds(ids) == [share_ids |-> ids]
DbMeta(shared_by) == [shared_by |-> shared_by]

(***************************************************************************)
(* Callers.                                                                *)
(***************************************************************************)
\* A request: the share name, the flag (if_exists or if_not_exists), and the
\* accounts or the object and privilege.  `set` names the fields the call has
\* read so far: a field is an input, fixed when the operation first reads it.
NoObject == DbName("")
Req(name) ==
    [share_name |-> name, flag |-> FALSE, accounts |-> <<>>,
     object |-> NoObject, privilege |-> {}, set |-> {}]
Choices(l, field, domain) == IF field \in l.req.set THEN {l.req[field]} ELSE domain
WithFlag(l, flag) == [l EXCEPT !.req.flag = flag, !.req.set = @ \cup {"flag"}]
WithAccounts(l, accounts) ==
    [l EXCEPT !.req.accounts = accounts, !.req.set = @ \cup {"accounts"}]
WithObject(l, object) == [l EXCEPT !.req.object = object, !.req.set = @ \cup {"object"}]
WithPrivilege(l, privilege) ==
    [l EXCEPT !.req.privilege = privilege, !.req.set = @ \cup {"privilege"}]
NoSeqAndId == [kind |-> "Database", db_id |-> 0, seq |-> 0, id |-> 0, db_meta |-> DbMeta({})]
\* A reply: Ok (with the share_id of a CreateShareReply) or the error, with
\* the operation name and the count a TxnRetryMaxTimes carries.
Reply(kind, share_id, op, times) ==
    [kind |-> kind, share_id |-> share_id, op |-> op, times |-> times]
NoResult == Reply("none", 0, "", 0)
Ok == Reply("Ok", 0, "", 0)
CreateShareReply(share_id) == Reply("Ok", share_id, "", 0)
Err(kind) == Reply(kind, 0, "", 0)

\* The values one attempt holds between its KV calls.
Attempt ==
    [share_id_seq |-> 0, share_id |-> 0, share_meta_seq |-> 0,
     share_meta |-> ShareMetaNew, share_name_seq |-> 0, keys |-> <<>>,
     todo |-> <<>>, seq_and_id |-> NoSeqAndId, share_ids_seq |-> 0,
     share_ids |-> ObjectSharedByShareIds({})]

\* submitted, injected and committed record the call's history: transactions
\* sent, attempts in which a foreign write hit a pinned record before the
\* transaction was sent, and whether a transaction of the call was applied.
Local(pc, op, req) ==
    [pc |-> pc, op |-> op, req |-> req, retry |-> 0, at |-> Attempt,
     result |-> NoResult, submitted |-> 0, injected |-> 0, hit |-> FALSE,
     committed |-> FALSE]

IdleLocal == Local("idle", "none", Req(<<Tenant, "s1">>))

\* The caller returns: the attempt's values are dropped.
Return(l, result) ==
    [l EXCEPT !.pc = "done", !.at = Attempt, !.hit = FALSE, !.result = result]

\* What a caller holds after a step, and what the step returned: a caller that
\* has returned is free again.
NoRet == IdleLocal
After(l) == IF l.pc = "done" THEN IdleLocal ELSE l
Returned(l) == IF l.pc = "done" THEN l ELSE NoRet

\* Faulty variant: the loop admits one attempt more.
LoopOrFail_one_more(l, first, name) ==
    IF l.retry <= TXN_MAX_RETRY_TIMES
    THEN [l EXCEPT !.pc = first, !.at = Attempt, !.hit = FALSE]
    ELSE Return(l, Reply("TxnRetryMaxTimes", 0, name, TXN_MAX_RETRY_TIMES))

\* `while retry < TXN_MAX_RETRY_TIMES { retry += 1; ...`: after a failed
\* transaction the loop starts its next attempt at `first`, or the call ends
\* with TxnRetryMaxTimes(op, TXN_MAX_RETRY_TIMES).
LoopOrFail(l, first, name) ==
    IF l.retry < TXN_MAX_RETRY_TIMES
    THEN [l EXCEPT !.pc = first, !.at = Attempt, !.hit = FALSE]
    ELSE Return(l, Reply("TxnRetryMaxTimes", 0, name, TXN_MAX_RETRY_TIMES))

\* Faulty variant: the writes are sent one by one, the first of them before
\* the conditions are evaluated.
SendTxn_not_atomic(p, txn_req, reply, first, name) ==
    LET l == [proc[p] EXCEPT !.submitted = @ + 1,
                             !.injected = IF proc[p].hit THEN @ + 1 ELSE @]
        next == IF TxnSucc(txn_req)
                THEN Return([l EXCEPT !.committed = TRUE], reply)
                ELSE LoopOrFail(l, first, name)
    IN  /\ kv' = IF TxnSucc(txn_req) THEN ApplyOps(kv, txn_req.if_then)
                 ELSE ApplyOp(kv, Head(txn_req.if_then))
        /\ proc' = [proc EXCEPT ![p] = After(next)]
        /\ ret' = Returned(next)
        /\ UNCHANGED <<id_gen, calls>>

\* Faulty variant: the attempt goes on as if the transaction had failed.
SendTxn_ignoring_succ(p, txn_req, reply, first, name) ==
    LET l == [proc[p] EXCEPT !.submitted = @ + 1,
                             !.injected = IF proc[p].hit THEN @ + 1 ELSE @]
        next == LoopOrFail(l, first, name)
    IN  /\ kv' = TxnStore(txn_req)
        /\ proc' = [proc EXCEPT ![p] = After(next)]
        /\ ret' = Returned(next)
        /\ UNCHANGED <<id_gen, calls>>

\* send_txn and `if succ { return Ok }`, the shared tail of every attempt.
SendTxn(p, txn_req, reply, first, name) ==
    LET l == [proc[p] EXCEPT !.submitted = @ + 1,
                             !.injected = IF proc[p].hit THEN @ + 1 ELSE @]
        next == IF TxnSucc(txn_req)
                THEN Return([l EXCEPT !.committed = TRUE], reply)
                ELSE LoopOrFail(l, first, name)
    IN  /\ kv' = TxnStore(txn_req)
        /\ proc' = [proc EXCEPT ![p] = After(next)]
        /\ ret' = Returned(next)
        /\ UNCHANGED <<id_gen, calls>>

\* A step that only reads: the caller moves on or returns.
Step(p, l) ==
    /\ proc' = [proc EXCEPT ![p] = After(l)]
    /\ ret' = Returned(l)
    /\ UNCHANGED <<kv, id_gen, calls>>

\* The database catalog of the owning tenant, which the share API reads:
\* database d1 (db_id 1) with table t1 (table_id 1), database d2 (db_id 2)
\* with table t2 (table_id 2).  No database is shared at the start.
Stored(val) == [seq |-> 1, hw |-> 1, val |-> val]
Catalog ==
    (DatabaseNameIdent(Tenant, "d1") :> Stored(1)) @@
    (DatabaseNameIdent(Tenant, "d2") :> Stored(2)) @@
    (DatabaseId(1) :> Stored(DbMeta({}))) @@
    (DatabaseId(2) :> Stored(DbMeta({}))) @@
    (DBIdTableName(1, "t1") :> Stored(1)) @@
    (DBIdTableName(2, "t2") :> Stored(2)) @@
    (TableId(1) :> Stored([table_id |-> 1])) @@
    (TableId(2) :> Stored([table_id |-> 2]))

Init ==
    /\ kv = Catalog
    /\ id_gen = 0
    /\ proc = [p \in Procs |-> IdleLocal]
    /\ calls = 0
    /\ ret = NoRet

\* A free caller invokes an operation with a request.  Free callers are
\* interchangeable: the call goes to the first of them.
ProcOrder == <<"p1", "p2", "p3">>
FirstFree(p) ==
    \E i \in 1..Len(ProcOrder) :
        /\ ProcOrder[i] = p
        /\ \A j \in 1..(i - 1) :
               ProcOrder[j] \in DOMAIN proc => proc[ProcOrder[j]].pc # "idle"
Invoke(p, op, req, first, budget) ==
    /\ proc[p].pc = "idle"
    /\ FirstFree(p)
    /\ calls < budget
    /\ calls' = calls + 1
    /\ proc' = [proc EXCEPT ![p] = Local(first, op, req)]
    /\ ret' = NoRet
    /\ UNCHANGED <<kv, id_gen>>

Call(p, op, req, first) == Invoke(p, op, req, first, MaxCalls)

(***************************************************************************)
(* create_share                                                            *)
(***************************************************************************)
create_share_call(p) ==
    \E name \in ShareNames : Call(p, "create_share", Req(name), "create_share_get")

\* Faulty variant: an existing name fails whatever if_not_exists says.
create_share_get_ignoring_if_not_exists(p) ==
    LET l == [proc[p] EXCEPT !.retry = @ + 1]
        name_key == ShareNameIdent(l.req.share_name)
    IN  /\ proc[p].pc = "create_share_get"
        /\ IF GetSeq(name_key) > 0
           THEN \E if_not_exists \in Choices(l, "flag", BOOLEAN) :
                    Step(p, Return(WithFlag(l, if_not_exists), Err("ShareAlreadyExists")))
           ELSE Step(p, [l EXCEPT !.pc = "create_share_fetch_id"])

\* Get share by name to ensure absence.
create_share_get(p) ==
    LET l == [proc[p] EXCEPT !.retry = @ + 1]
        name_key == ShareNameIdent(l.req.share_name)
    IN  /\ proc[p].pc = "create_share_get"
        /\ IF GetSeq(name_key) > 0
           THEN \E if_not_exists \in Choices(l, "flag", BOOLEAN) :
                    Step(p, IF if_not_exists
                            THEN Return(WithFlag(l, if_not_exists),
                                        CreateShareReply(GetVal(name_key)))
                            ELSE Return(WithFlag(l, if_not_exists),
                                        Err("ShareAlreadyExists")))
           ELSE Step(p, [l EXCEPT !.pc = "create_share_fetch_id"])

\* Faulty variant: the id handed out is the last one again.
create_share_fetch_id_reusing(p) ==
    /\ proc[p].pc = "create_share_fetch_id"
    /\ id_gen' = IF id_gen = 0 THEN 1 ELSE id_gen
    /\ proc' = [proc EXCEPT ![p].at.share_id = id_gen', ![p].pc = "create_share_txn"]
    /\ ret' = NoRet
    /\ UNCHANGED <<kv, calls>>

\* fetch_id(IdGenerator::share_id())
create_share_fetch_id(p) ==
    /\ proc[p].pc = "create_share_fetch_id"
    /\ id_gen' = id_gen + 1
    /\ proc' = [proc EXCEPT ![p].at.share_id = id_gen + 1, ![p].pc = "create_share_txn"]
    /\ ret' = NoRet
    /\ UNCHANGED <<kv, calls>>

\* Faulty variant: the transaction does not put (share_id) -> share_meta.
create_share_txn_req_without_meta(l) ==
    LET name_key == ShareNameIdent(l.req.share_name)
        id_to_name_key == ShareIdToName(l.at.share_id)
    IN  TxnRequest(
            <<txn_cond_seq(name_key, 0), txn_cond_seq(id_to_name_key, 0)>>,
            <<txn_op_put(name_key, l.at.share_id),
              txn_op_put(id_to_name_key, l.req.share_name)>>)

\* Faulty variant: the transaction does not require the name to be absent.
create_share_txn_req_without_name_cond(l) ==
    LET name_key == ShareNameIdent(l.req.share_name)
        id_key == ShareId(l.at.share_id)
        id_to_name_key == ShareIdToName(l.at.share_id)
    IN  TxnRequest(
            <<txn_cond_seq(id_to_name_key, 0)>>,
            <<txn_op_put(name_key, l.at.share_id),
              txn_op_put(id_key, ShareMetaNew),
              txn_op_put(id_to_name_key, l.req.share_name)>>)

\* Faulty variant: the transaction has no condition.
create_share_txn_req_without_conditions(l) ==
    LET name_key == ShareNameIdent(l.req.share_name)
        id_key == ShareId(l.at.share_id)
        id_to_name_key == ShareIdToName(l.at.share_id)
    IN  TxnRequest(
            <<>>,
            <<txn_op_put(name_key, l.at.share_id),
              txn_op_put(id_key, ShareMetaNew),
              txn_op_put(id_to_name_key, l.req.share_name)>>)

create_share_txn_req(l) ==
    LET name_key == ShareNameIdent(l.req.share_name)
        id_key == ShareId(l.at.share_id)
        id_to_name_key == ShareIdToName(l.at.share_id)
    IN  TxnRequest(
            <<txn_cond_seq(name_key, 0), txn_cond_seq(id_to_name_key, 0)>>,
            <<txn_op_put(name_key, l.at.share_id),
              txn_op_put(id_key, ShareMetaNew),
              txn_op_put(id_to_name_key, l.req.share_name)>>)

create_share_txn(p) ==
    /\ proc[p].pc = "create_share_txn"
    /\ SendTxn(p, create_share_txn_req(proc[p]), CreateShareReply(proc[p].at.share_id),
               "create_share_get", "create_share")

(***************************************************************************)
(* get_share_or_err, read by read.  Each operation handles the errors.     *)
(***************************************************************************)
\* get_u64_value(name_key) and share_has_to_exist: at the head of an attempt.
ReadShareName(l) ==
    LET name_key == ShareNameIdent(l.req.share_name)
    IN  [l EXCEPT !.retry = @ + 1,
                  !.at.share_id_seq = GetSeq(name_key),
                  !.at.share_id = IF GetSeq(name_key) > 0 THEN GetVal(name_key) ELSE 0]

\* get_share_meta_by_id_or_err(share_id)
ReadShareMeta(l) ==
    LET id_key == ShareId(l.at.share_id)
    IN  [l EXCEPT !.at.share_meta_seq = GetSeq(id_key),
                  !.at.share_meta = IF GetSeq(id_key) > 0 THEN GetVal(id_key) ELSE ShareMetaNew]

\* Faulty variant: the error is returned whatever if_exists says.
UnknownShareReply_ignoring_if_exists(p, l, kind) ==
    \E if_exists \in Choices(l, "flag", BOOLEAN) :
        Step(p, Return(WithFlag(l, if_exists), Err(kind)))

\* `if let UnknownShare(_) = e { if req.if_exists { return Ok } } return Err(e)`
UnknownShareReply(p, l, kind) ==
    \E if_exists \in Choices(l, "flag", BOOLEAN) :
        Step(p, IF if_exists THEN Return(WithFlag(l, if_exists), Ok)
                ELSE Return(WithFlag(l, if_exists), Err(kind)))

(***************************************************************************)
(* drop_share                                                              *)
(***************************************************************************)
drop_share_call(p) ==
    \E name \in ShareNames : Call(p, "drop_share", Req(name), "drop_share_get_name")

drop_share_get_name(p) ==
    LET l == ReadShareName(proc[p])
    IN  /\ proc[p].pc = "drop_share_get_name"
        /\ IF l.at.share_id_seq = 0 THEN UnknownShareReply(p, l, "UnknownShare")
           ELSE Step(p, [l EXCEPT !.pc = "drop_share_get_meta"])

drop_share_get_meta(p) ==
    LET l == ReadShareMeta(proc[p])
    IN  /\ proc[p].pc = "drop_share_get_meta"
        /\ Step(p, IF l.at.share_meta_seq = 0 THEN Return(l, Err("UnknownShareId"))
                   ELSE [l EXCEPT !.pc = "drop_share_get_id_to_name"])

\* get_share_id_to_name_or_err; then the loop over share_meta.get_accounts().
drop_share_get_id_to_name(p) ==
    LET l == proc[p]
        seq == GetSeq(ShareIdToName(l.at.share_id))
        todo == get_accounts(l.at.share_meta)
    IN  /\ l.pc = "drop_share_get_id_to_name"
        /\ IF seq = 0 THEN UnknownShareReply(p, l, "UnknownShareId")
           ELSE Step(p, [l EXCEPT !.at.share_name_seq = seq, !.at.todo = todo,
                                  !.pc = IF todo = <<>> THEN "drop_share_txn"
                                         ELSE "drop_share_get_account"])

\* get all accounts seq from share_meta: an account without record is skipped.
drop_share_get_account(p) ==
    LET l == proc[p]
        key == ShareAccountNameIdent(Head(l.at.todo), l.at.share_id)
        seq == GetSeq(key)
    IN  /\ l.pc = "drop_share_get_account"
        /\ Step(p, [l EXCEPT !.at.keys = IF seq = 0 THEN @
                                         ELSE Append(@, txn_cond_seq(key, seq)),
                             !.at.todo = Tail(@),
                             !.pc = IF Tail(l.at.todo) = <<>> THEN "drop_share_txn"
                                    ELSE "drop_share_get_account"])

DelOf(cond) == txn_op_del(cond.key)
Map(f(_), s) == [i \in 1..Len(s) |-> f(s[i])]

\* Faulty variant: the transaction leaves (share_id) -> share_name behind.
drop_share_txn_req_without_id_name(l) ==
    LET name_key == ShareNameIdent(l.req.share_name)
        share_id_key == ShareId(l.at.share_id)
        id_name_key == ShareIdToName(l.at.share_id)
    IN  TxnRequest(
            <<txn_cond_seq(name_key, l.at.share_id_seq),
              txn_cond_seq(share_id_key, l.at.share_meta_seq),
              txn_cond_seq(id_name_key, l.at.share_name_seq)>> \o l.at.keys,
            <<txn_op_del(name_key), txn_op_del(share_id_key)>> \o Map(DelOf, l.at.keys))

\* Faulty variant: the transaction leaves the account records behind.
drop_share_txn_req_without_accounts(l) ==
    LET name_key == ShareNameIdent(l.req.share_name)
        share_id_key == ShareId(l.at.share_id)
        id_name_key == ShareIdToName(l.at.share_id)
    IN  TxnRequest(
            <<txn_cond_seq(name_key, l.at.share_id_seq),
              txn_cond_seq(share_id_key, l.at.share_meta_seq),
              txn_cond_seq(id_name_key, l.at.share_name_seq)>> \o l.at.keys,
            <<txn_op_del(name_key), txn_op_del(share_id_key), txn_op_del(id_name_key)>>)

drop_share_txn_req(l) ==
    LET name_key == ShareNameIdent(l.req.share_name)
        share_id_key == ShareId(l.at.share_id)
        id_name_key == ShareIdToName(l.at.share_id)
    IN  TxnRequest(
            <<txn_cond_seq(name_key, l.at.share_id_seq),
              txn_cond_seq(share_id_key, l.at.share_meta_seq),
              txn_cond_seq(id_name_key, l.at.share_name_seq)>> \o l.at.keys,
            <<txn_op_del(name_key), txn_op_del(share_id_key), txn_op_del(id_name_key)>>
                \o Map(DelOf, l.at.keys))

drop_share_txn(p) ==
    /\ proc[p].pc = "drop_share_txn"
    /\ SendTxn(p, drop_share_txn_req(proc[p]), Ok,
               "drop_share_get_name", "drop_share")

(***************************************************************************)
(* add_share_tenants                                                       *)
(***************************************************************************)
add_share_tenants_call(p) ==
    \E name \in ShareNames :
        Call(p, "add_share_tenants", Req(name), "add_share_tenants_get_name")

add_share_tenants_get_name(p) ==
    LET l == ReadShareName(proc[p])
    IN  /\ proc[p].pc = "add_share_tenants_get_name"
        /\ IF l.at.share_id_seq = 0 THEN UnknownShareReply(p, l, "UnknownShare")
           ELSE Step(p, [l EXCEPT !.pc = "add_share_tenants_get_meta"])

\* Faulty variant: the owning tenant is not skipped.
add_share_account_keys_with_owner(req, share_id, share_meta) ==
    LET Wanted(account) == ~has_account(share_meta, account)
        KeyOf(account) == txn_cond_seq(ShareAccountNameIdent(account, share_id), 0)
    IN  Map(KeyOf, SelectSeq(req.accounts, Wanted))

\* Faulty variant: the accounts already in the share are not skipped.
add_share_account_keys_with_present(req, share_id, share_meta) ==
    LET Wanted(account) == account # req.share_name[1]
        KeyOf(account) == txn_cond_seq(ShareAccountNameIdent(account, share_id), 0)
    IN  Map(KeyOf, SelectSeq(req.accounts, Wanted))

\* The requested accounts that are not the owning tenant and not yet in the
\* share, in request order.
add_share_account_keys(req, share_id, share_meta) ==
    LET Wanted(account) ==
            account # req.share_name[1] /\ ~has_account(share_meta, account)
        KeyOf(account) == txn_cond_seq(ShareAccountNameIdent(account, share_id), 0)
    IN  Map(KeyOf, SelectSeq(req.accounts, Wanted))

add_share_tenants_get_meta(p) ==
    /\ proc[p].pc = "add_share_tenants_get_meta"
    /\ IF GetSeq(ShareId(proc[p].at.share_id)) = 0
       THEN Step(p, Return(proc[p], Err("UnknownShareId")))
       ELSE \E accounts \in Choices(proc[p], "accounts", AccountLists) :
               LET l == WithAccounts(ReadShareMeta(proc[p]), accounts)
                   keys == add_share_account_keys(l.req, l.at.share_id, l.at.share_meta)
               IN  Step(p, IF keys = <<>>
                           THEN Return(l, Err("ShareAccountsAlreadyExists"))
                           ELSE [l EXCEPT !.at.keys = keys, !.pc = "add_share_tenants_txn"])

RECURSIVE AddAccounts(_, _)
AddAccounts(share_meta, keys) ==
    IF keys = <<>> THEN share_meta
    ELSE AddAccounts(add_account(share_meta, Head(keys).key.t), Tail(keys))

\* Faulty variant: share_meta gets the accounts, their records are not put.
add_share_tenants_txn_req_without_records(l) ==
    LET name_key == ShareNameIdent(l.req.share_name)
        id_key == ShareId(l.at.share_id)
    IN  TxnRequest(
            <<txn_cond_seq(name_key, l.at.share_id_seq),
              txn_cond_seq(id_key, l.at.share_meta_seq)>> \o l.at.keys,
            <<txn_op_put(id_key, AddAccounts(l.at.share_meta, l.at.keys))>>)

\* Faulty variant: the transaction pins the share name only.
add_share_tenants_txn_req_name_cond_only(l) ==
    LET name_key == ShareNameIdent(l.req.share_name)
        id_key == ShareId(l.at.share_id)
        PutOf(cond) == txn_op_put(cond.key, ShareAccountMeta(cond.key.t, l.at.share_id))
    IN  TxnRequest(
            <<txn_cond_seq(name_key, l.at.share_id_seq)>>,
            Map(PutOf, l.at.keys)
                \o <<txn_op_put(id_key, AddAccounts(l.at.share_meta, l.at.keys))>>)

add_share_tenants_txn_req(l) ==
    LET name_key == ShareNameIdent(l.req.share_name)
        id_key == ShareId(l.at.share_id)
        PutOf(cond) == txn_op_put(cond.key, ShareAccountMeta(cond.key.t, l.at.share_id))
    IN  TxnRequest(
            <<txn_cond_seq(name_key, l.at.share_id_seq),
              txn_cond_seq(id_key, l.at.share_meta_seq)>> \o l.at.keys,
            Map(PutOf, l.at.keys)
                \o <<txn_op_put(id_key, AddAccounts(l.at.share_meta, l.at.keys))>>)

add_share_tenants_txn(p) ==
    /\ proc[p].pc = "add_share_tenants_txn"
    /\ SendTxn(p, add_share_tenants_txn_req(proc[p]), Ok,
               "add_share_tenants_get_name", "add_share_tenants")

(***************************************************************************)
(* remove_share_tenants                                                    *)
(***************************************************************************)
remove_share_tenants_call(p) ==
    \E name \in ShareNames :
        Call(p, "remove_share_tenants", Req(name), "remove_share_tenants_get_name")

remove_share_tenants_get_name(p) ==
    LET l == ReadShareName(proc[p])
    IN  /\ proc[p].pc = "remove_share_tenants_get_name"
        /\ IF l.at.share_id_seq = 0 THEN UnknownShareReply(p, l, "UnknownShare")
           ELSE Step(p, [l EXCEPT !.pc = "remove_share_tenants_get_meta"])

\* The requested accounts whose record the loop reads: not the owning tenant
\* and present in share_meta.
remove_share_accounts(req, share_meta) ==
    LET Wanted(account) ==
            account # req.share_name[1] /\ has_account(share_meta, account)
    IN  SelectSeq(req.accounts, Wanted)

remove_share_tenants_get_meta(p) ==
    /\ proc[p].pc = "remove_share_tenants_get_meta"
    /\ IF GetSeq(ShareId(proc[p].at.share_id)) = 0
       THEN Step(p, Return(proc[p], Err("UnknownShareId")))
       ELSE \E accounts \in Choices(proc[p], "accounts", AccountLists) :
               LET l == WithAccounts(ReadShareMeta(proc[p]), accounts)
                   todo == remove_share_accounts(l.req, l.at.share_meta)
               IN  Step(p, IF todo = <<>>
                           THEN Return(l, Err("UnknownShareAccounts"))
                           ELSE [l EXCEPT !.at.todo = todo,
                                          !.pc = "remove_share_tenants_get_account"])

\* get_share_account_meta_or_err: a missing record ends the call with its error.
remove_share_tenants_get_account(p) ==
    LET l == proc[p]
        key == ShareAccountNameIdent(Head(l.at.todo), l.at.share_id)
        seq == GetSeq(key)
    IN  /\ l.pc = "remove_share_tenants_get_account"
        /\ Step(p, IF seq = 0 THEN Return(l, Err("UnknownShareAccounts"))
                   ELSE [l EXCEPT !.at.keys = Append(@, txn_cond_seq(key, seq)),
                                  !.at.todo = Tail(@),
                                  !.pc = IF Tail(l.at.todo) = <<>>
                                         THEN "remove_share_tenants_txn"
                                         ELSE "remove_share_tenants_get_account"])

RECURSIVE DelAccounts(_, _)
DelAccounts(share_meta, keys) ==
    IF keys = <<>> THEN share_meta
    ELSE DelAccounts(del_account(share_meta, Head(keys).key.t), Tail(keys))

\* Faulty variant: share_meta loses the accounts, their records stay.
remove_share_tenants_txn_req_without_deletes(l) ==
    LET id_key == ShareId(l.at.share_id)
    IN  TxnRequest(
            <<txn_cond_seq(id_key, l.at.share_meta_seq)>> \o l.at.keys,
            <<txn_op_put(id_key, DelAccounts(l.at.share_meta, l.at.keys))>>)

\* Faulty variant: the transaction pins the account records only, not the
\* ShareMeta it rewrites.
remove_share_tenants_txn_req_without_meta_cond(l) ==
    LET id_key == ShareId(l.at.share_id)
    IN  TxnRequest(
            l.at.keys,
            Map(DelOf, l.at.keys)
                \o <<txn_op_put(id_key, DelAccounts(l.at.share_meta, l.at.keys))>>)

remove_share_tenants_txn_req(l) ==
    LET id_key == ShareId(l.at.share_id)
    IN  TxnRequest(
            <<txn_cond_seq(id_key, l.at.share_meta_seq)>> \o l.at.keys,
            Map(DelOf, l.at.keys)
                \o <<txn_op_put(id_key, DelAccounts(l.at.share_meta, l.at.keys))>>)

remove_share_tenants_txn(p) ==
    /\ proc[p].pc = "remove_share_tenants_txn"
    /\ SendTxn(p, remove_share_tenants_txn_req(proc[p]), Ok,
               "remove_share_tenants_get_name", "remove_share_tenants")

(***************************************************************************)
(* Object resolver and the checks shared by grant and revoke.              *)
(***************************************************************************)
SeqAndIdDatabase(db_meta_seq, db_id, db_meta) ==
    [kind |-> "Database", db_id |-> db_id, seq |-> db_meta_seq, id |-> db_id,
     db_meta |-> db_meta]
SeqAndIdTable(db_id, table_meta_seq, table_id) ==
    [kind |-> "Table", db_id |-> db_id, seq |-> table_meta_seq, id |-> table_id,
     db_meta |-> DbMeta({})]

\* get_share_object_seq_and_id: [err, seq_and_id], err "" on success.  The
\* name records of the database catalog are never written by the share API,
\* so the resolver's reads are taken in one step.
get_share_object_seq_and_id(obj_name, tenant) ==
    LET db_name_key == DatabaseNameIdent(tenant, obj_name.db)
        db_id == GetVal(db_name_key)
        table_name_key == DBIdTableName(db_id, obj_name.table)
        table_id == GetVal(table_name_key)
        Fail(kind) == [err |-> kind, seq_and_id |-> NoSeqAndId]
    IN  IF GetSeq(db_name_key) = 0 THEN Fail("UnknownDatabase")
        ELSE IF obj_name.kind = "Database"
        THEN IF GetSeq(DatabaseId(db_id)) = 0 THEN Fail("UnknownDatabase")
             ELSE [err |-> "",
                   seq_and_id |-> SeqAndIdDatabase(GetSeq(DatabaseId(db_id)), db_id,
                                                   GetVal(DatabaseId(db_id)))]
        ELSE IF GetSeq(table_name_key) = 0 THEN Fail("UnknownTable")
             ELSE [err |-> "",
                   seq_and_id |-> SeqAndIdTable(db_id, GetSeq(TableId(table_id)), table_id)]

\* Faulty variant: a table passes when no database is granted.
check_share_object_without_database(database, seq_and_id) ==
    IF IsSome(database)
    THEN Unwrap(database).object.id = seq_and_id.db_id
    ELSE TRUE

\* Faulty variant: an object of any database passes once a database is granted.
check_share_object_without_cross_database(database, seq_and_id) ==
    IF IsSome(database)
    THEN TRUE
    ELSE seq_and_id.kind # "Table"

\* check_share_object: TRUE is Ok(()), FALSE is WrongShareObject.
check_share_object(database, seq_and_id) ==
    IF IsSome(database)
    THEN Unwrap(database).object.id = seq_and_id.db_id
    ELSE seq_and_id.kind # "Table"

\* get_object_shared_by_share_ids: (0, default) when the record is absent.
ReadSharedBy(l) ==
    LET key == ObjectKey(ObjectOf(l.at.seq_and_id))
    IN  [l EXCEPT !.at.share_ids_seq = GetSeq(key),
                  !.at.share_ids = IF GetSeq(key) > 0 THEN GetVal(key)
                                   ELSE ObjectSharedByShareIds({})]

\* Faulty variant: the TableMeta key is pinned for a database as well, at the
\* seq of the DbMeta.
add_txn_condition_pinning_table(seq_and_id, condition) ==
    Append(condition, txn_cond_seq(TableId(seq_and_id.id), seq_and_id.seq))

\* add_txn_condition: pins the DbMeta or the TableMeta the resolver read.
add_txn_condition(seq_and_id, condition) ==
    IF seq_and_id.kind = "Database"
    THEN Append(condition, txn_cond_seq(DatabaseId(seq_and_id.db_id), seq_and_id.seq))
    ELSE Append(condition, txn_cond_seq(TableId(seq_and_id.id), seq_and_id.seq))

\* add_grant_object_txn_if_then: DbMeta is written only when share_id is new
\* in shared_by.
add_grant_object_txn_if_then(share_id, seq_and_id, if_then) ==
    IF seq_and_id.kind = "Database" /\ share_id \notin seq_and_id.db_meta.shared_by
    THEN Append(if_then,
                txn_op_put(DatabaseId(seq_and_id.db_id),
                           DbMeta(seq_and_id.db_meta.shared_by \cup {share_id})))
    ELSE if_then

(***************************************************************************)
(* grant_share_object                                                      *)
(***************************************************************************)
grant_share_object_call(p) ==
    \E name \in ShareNames :
        Call(p, "grant_share_object", Req(name), "grant_share_object_get_name")

\* Faulty variant: an unknown share is answered with success.
grant_share_object_get_name_suppressing_unknown_share(p) ==
    LET l == ReadShareName(proc[p])
    IN  /\ proc[p].pc = "grant_share_object_get_name"
        /\ Step(p, IF l.at.share_id_seq = 0 THEN Return(l, Ok)
                   ELSE [l EXCEPT !.pc = "grant_share_object_get_object"])

grant_share_object_get_name(p) ==
    LET l == ReadShareName(proc[p])
    IN  /\ proc[p].pc = "grant_share_object_get_name"
        /\ Step(p, IF l.at.share_id_seq = 0 THEN Return(l, Err("UnknownShare"))
                   ELSE [l EXCEPT !.pc = "grant_share_object_get_object"])

\* Faulty variant: the attempt does not stop when the privileges are granted.
grant_share_object_get_object_without_has_granted(p) ==
    /\ proc[p].pc = "grant_share_object_get_object"
    /\ IF GetSeq(ShareId(proc[p].at.share_id)) = 0
       THEN Step(p, Return(proc[p], Err("UnknownShareId")))
       ELSE \E object \in Choices(proc[p], "object", ObjectNames) :
               LET lo == WithObject(ReadShareMeta(proc[p]), object)
                   res == get_share_object_seq_and_id(object, lo.req.share_name[1])
               IN  IF res.err # "" THEN Step(p, Return(lo, Err(res.err)))
                   ELSE IF ~check_share_object(lo.at.share_meta.database, res.seq_and_id)
                   THEN Step(p, Return(lo, Err("WrongShareObject")))
                   ELSE \E privilege \in Choices(lo, "privilege", PrivilegeSets) :
                       LET l == WithPrivilege(lo, privilege)
                       IN  Step(p, [ReadSharedBy([l EXCEPT !.at.seq_and_id =
                                                              res.seq_and_id])
                                       EXCEPT !.pc = "grant_share_object_txn"])

\* The rest of the attempt's reads: get_share_meta_by_id_or_err,
\* get_share_object_seq_and_id with check_share_object and
\* has_granted_privileges, and get_object_shared_by_share_ids.  The replies
\* decided here depend on ShareMeta and on the catalog's name records alone,
\* and the transaction pins every record read here, so the reads are taken at
\* one instant.
grant_share_object_get_object(p) ==
    /\ proc[p].pc = "grant_share_object_get_object"
    /\ IF GetSeq(ShareId(proc[p].at.share_id)) = 0
       THEN Step(p, Return(proc[p], Err("UnknownShareId")))
       ELSE \E object \in Choices(proc[p], "object", ObjectNames) :
               LET lo == WithObject(ReadShareMeta(proc[p]), object)
                   res == get_share_object_seq_and_id(object, lo.req.share_name[1])
               IN  IF res.err # "" THEN Step(p, Return(lo, Err(res.err)))
                   ELSE IF ~check_share_object(lo.at.share_meta.database, res.seq_and_id)
                   THEN Step(p, Return(lo, Err("WrongShareObject")))
                   ELSE \E privilege \in Choices(lo, "privilege", PrivilegeSets) :
                       LET l == WithPrivilege(lo, privilege)
                           has == has_granted_privileges(l.at.share_meta, res.seq_and_id,
                                                         privilege)
                       IN  Step(p, IF ~has.ok THEN Return(l, Err("WrongShareObject"))
                                   ELSE IF has.has THEN Return(l, Ok)
                                   ELSE [ReadSharedBy([l EXCEPT !.at.seq_and_id =
                                                                     res.seq_and_id])
                                            EXCEPT !.pc = "grant_share_object_txn"])

\* Faulty variant: the transaction does not pin the ShareMeta.
grant_share_object_txn_req_without_meta_cond(l) ==
    LET id_key == ShareId(l.at.share_id)
        object == ObjectOf(l.at.seq_and_id)
        share_ids == ObjectSharedByShareIds(l.at.share_ids.share_ids \cup {l.at.share_id})
        share_meta == grant_object_privileges(l.at.share_meta, object, l.req.privilege)
    IN  TxnRequest(
            add_txn_condition(l.at.seq_and_id,
                <<txn_cond_seq(ShareNameIdent(l.req.share_name), l.at.share_id_seq),
                  txn_cond_seq(ObjectKey(object), l.at.share_ids_seq)>>),
            add_grant_object_txn_if_then(l.at.share_id, l.at.seq_and_id,
                <<txn_op_put(id_key, share_meta),
                  txn_op_put(ObjectKey(object), share_ids)>>))

\* Faulty variant: the transaction does not pin the ObjectSharedByShareIds
\* record it rewrites.
grant_share_object_txn_req_without_shared_by_cond(l) ==
    LET id_key == ShareId(l.at.share_id)
        object == ObjectOf(l.at.seq_and_id)
        share_ids == ObjectSharedByShareIds(l.at.share_ids.share_ids \cup {l.at.share_id})
        share_meta == grant_object_privileges(l.at.share_meta, object, l.req.privilege)
    IN  TxnRequest(
            add_txn_condition(l.at.seq_and_id,
                <<txn_cond_seq(ShareNameIdent(l.req.share_name), l.at.share_id_seq),
                  txn_cond_seq(id_key, l.at.share_meta_seq)>>),
            add_grant_object_txn_if_then(l.at.share_id, l.at.seq_and_id,
                <<txn_op_put(id_key, share_meta),
                  txn_op_put(ObjectKey(object), share_ids)>>))

grant_share_object_txn_req(l) ==
    LET id_key == ShareId(l.at.share_id)
        object == ObjectOf(l.at.seq_and_id)
        share_ids == ObjectSharedByShareIds(l.at.share_ids.share_ids \cup {l.at.share_id})
        share_meta == grant_object_privileges(l.at.share_meta, object, l.req.privilege)
    IN  TxnRequest(
            add_txn_condition(l.at.seq_and_id,
                <<txn_cond_seq(ShareNameIdent(l.req.share_name), l.at.share_id_seq),
                  txn_cond_seq(id_key, l.at.share_meta_seq),
                  txn_cond_seq(ObjectKey(object), l.at.share_ids_seq)>>),
            add_grant_object_txn_if_then(l.at.share_id, l.at.seq_and_id,
                <<txn_op_put(id_key, share_meta),
                  txn_op_put(ObjectKey(object), share_ids)>>))

grant_share_object_txn(p) ==
    /\ proc[p].pc = "grant_share_object_txn"
    /\ SendTxn(p, grant_share_object_txn_req(proc[p]), Ok,
               "grant_share_object_get_name", "grant_share_object")

(***************************************************************************)
(* revoke_share_object                                                     *)
(***************************************************************************)
revoke_share_object_call(p) ==
    \E name \in ShareNames :
        Call(p, "revoke_share_object", Req(name), "revoke_share_object_get_name")

revoke_share_object_get_name(p) ==
    LET l == ReadShareName(proc[p])
    IN  /\ proc[p].pc = "revoke_share_object_get_name"
        /\ Step(p, IF l.at.share_id_seq = 0 THEN Return(l, Err("UnknownShare"))
                   ELSE [l EXCEPT !.pc = "revoke_share_object_get_object"])

\* Faulty variant: the attempt does not call check_share_object.
revoke_share_object_get_object_without_check(p) ==
    /\ proc[p].pc = "revoke_share_object_get_object"
    /\ IF GetSeq(ShareId(proc[p].at.share_id)) = 0
       THEN Step(p, Return(proc[p], Err("UnknownShareId")))
       ELSE \E object \in Choices(proc[p], "object", ObjectNames) :
               LET lo == WithObject(ReadShareMeta(proc[p]), object)
                   res == get_share_object_seq_and_id(object, lo.req.share_name[1])
               IN  IF res.err # "" THEN Step(p, Return(lo, Err(res.err)))
                   ELSE \E privilege \in Choices(lo, "privilege", PrivilegeSets) :
                       LET l == WithPrivilege(lo, privilege)
                           has == has_granted_privileges(l.at.share_meta, res.seq_and_id,
                                                         privilege)
                           revoked == revoke_object_privileges(l.at.share_meta,
                                          ObjectOf(res.seq_and_id), privilege)
                       IN  Step(p, IF ~has.ok THEN Return(l, Err("WrongShareObject"))
                                   ELSE IF ~has.has THEN Return(l, Ok)
                                   ELSE IF ~revoked.ok
                                   THEN Return(l, Err("WrongShareObject"))
                                   ELSE [ReadSharedBy([l EXCEPT !.at.seq_and_id =
                                                                     res.seq_and_id])
                                            EXCEPT !.pc = "revoke_share_object_txn"])

\* Faulty variant: the error of revoke_object_privileges is dropped.
revoke_share_object_get_object_ignoring_revoke_error(p) ==
    /\ proc[p].pc = "revoke_share_object_get_object"
    /\ IF GetSeq(ShareId(proc[p].at.share_id)) = 0
       THEN Step(p, Return(proc[p], Err("UnknownShareId")))
       ELSE \E object \in Choices(proc[p], "object", ObjectNames) :
               LET lo == WithObject(ReadShareMeta(proc[p]), object)
                   res == get_share_object_seq_and_id(object, lo.req.share_name[1])
               IN  IF res.err # "" THEN Step(p, Return(lo, Err(res.err)))
                   ELSE IF ~check_share_object(lo.at.share_meta.database, res.seq_and_id)
                   THEN Step(p, Return(lo, Err("WrongShareObject")))
                   ELSE \E privilege \in Choices(lo, "privilege", PrivilegeSets) :
                       LET l == WithPrivilege(lo, privilege)
                           has == has_granted_privileges(l.at.share_meta, res.seq_and_id,
                                                         privilege)
                           revoked == revoke_object_privileges(l.at.share_meta,
                                          ObjectOf(res.seq_and_id), privilege)
                       IN  Step(p, IF ~has.ok THEN Return(l, Err("WrongShareObject"))
                                   ELSE IF ~has.has THEN Return(l, Ok)
                                   ELSE [ReadSharedBy([l EXCEPT !.at.seq_and_id =
                                                                     res.seq_and_id])
                                            EXCEPT !.pc = "revoke_share_object_txn"])

\* The rest of the attempt's reads, as in grant_share_object, with
\* share_meta.revoke_object_privileges before get_object_shared_by_share_ids.
revoke_share_object_get_object(p) ==
    /\ proc[p].pc = "revoke_share_object_get_object"
    /\ IF GetSeq(ShareId(proc[p].at.share_id)) = 0
       THEN Step(p, Return(proc[p], Err("UnknownShareId")))
       ELSE \E object \in Choices(proc[p], "object", ObjectNames) :
               LET lo == WithObject(ReadShareMeta(proc[p]), object)
                   res == get_share_object_seq_and_id(object, lo.req.share_name[1])
               IN  IF res.err # "" THEN Step(p, Return(lo, Err(res.err)))
                   ELSE IF ~check_share_object(lo.at.share_meta.database, res.seq_and_id)
                   THEN Step(p, Return(lo, Err("WrongShareObject")))
                   ELSE \E privilege \in Choices(lo, "privilege", PrivilegeSets) :
                       LET l == WithPrivilege(lo, privilege)
                           has == has_granted_privileges(l.at.share_meta, res.seq_and_id,
                                                         privilege)
                           revoked == revoke_object_privileges(l.at.share_meta,
                                          ObjectOf(res.seq_and_id), privilege)
                       IN  Step(p, IF ~has.ok THEN Return(l, Err("WrongShareObject"))
                                   ELSE IF ~has.has THEN Return(l, Ok)
                                   ELSE IF ~revoked.ok
                                   THEN Return(l, Err("WrongShareObject"))
                                   ELSE [ReadSharedBy([l EXCEPT !.at.seq_and_id =
                                                                     res.seq_and_id])
                                            EXCEPT !.pc = "revoke_share_object_txn"])

\* Faulty variant: a database revoke leaves DbMeta as it is.
revoke_db_meta_if_then_without_put(share_id, seq_and_id, if_then) == if_then

\* Faulty variant: a database revoke writes DbMeta only when shared_by changes.
revoke_db_meta_if_then_skipping_noop(share_id, seq_and_id, if_then) ==
    IF seq_and_id.kind = "Database" /\ share_id \in seq_and_id.db_meta.shared_by
    THEN Append(if_then,
                txn_op_put(DatabaseId(seq_and_id.db_id),
                           DbMeta(seq_and_id.db_meta.shared_by \ {share_id})))
    ELSE if_then

\* `if let Database(_seq, db_id, mut db_meta) = seq_and_id`: the DbMeta put of
\* a database revoke.
revoke_db_meta_if_then(share_id, seq_and_id, if_then) ==
    IF seq_and_id.kind = "Database"
    THEN Append(if_then,
                txn_op_put(DatabaseId(seq_and_id.db_id),
                           DbMeta(seq_and_id.db_meta.shared_by \ {share_id})))
    ELSE if_then

revoke_share_object_txn_req(l) ==
    LET id_key == ShareId(l.at.share_id)
        object == ObjectOf(l.at.seq_and_id)
        share_ids == ObjectSharedByShareIds(l.at.share_ids.share_ids \ {l.at.share_id})
        share_meta == revoke_object_privileges(l.at.share_meta, object,
                                               l.req.privilege).share_meta
    IN  TxnRequest(
            add_txn_condition(l.at.seq_and_id,
                <<txn_cond_seq(ShareNameIdent(l.req.share_name), l.at.share_id_seq),
                  txn_cond_seq(id_key, l.at.share_meta_seq),
                  txn_cond_seq(ObjectKey(object), l.at.share_ids_seq)>>),
            revoke_db_meta_if_then(l.at.share_id, l.at.seq_and_id,
                <<txn_op_put(id_key, share_meta),
                  txn_op_put(ObjectKey(object), share_ids)>>))

revoke_share_object_txn(p) ==
    /\ proc[p].pc = "revoke_share_object_txn"
    /\ SendTxn(p, revoke_share_object_txn_req(proc[p]), Ok,
               "revoke_share_object_get_name", "revoke_share_object")

Next ==
    \E p \in Procs :
        \/ create_share_call(p)
        \/ create_share_get(p)
        \/ create_share_fetch_id(p)
        \/ create_share_txn(p)
        \/ drop_share_call(p)
        \/ drop_share_get_name(p)
        \/ drop_share_get_meta(p)
        \/ drop_share_get_id_to_name(p)
        \/ drop_share_get_account(p)
        \/ drop_share_txn(p)
        \/ add_share_tenants_call(p)
        \/ add_share_tenants_get_name(p)
        \/ add_share_tenants_get_meta(p)
        \/ add_share_tenants_txn(p)
        \/ remove_share_tenants_call(p)
        \/ remove_share_tenants_get_name(p)
        \/ remove_share_tenants_get_meta(p)
        \/ remove_share_tenants_get_account(p)
        \/ remove_share_tenants_txn(p)
        \/ grant_share_object_call(p)
        \/ grant_share_object_get_name(p)
        \/ grant_share_object_get_object(p)
        \/ grant_share_object_txn(p)
        \/ revoke_share_object_call(p)
        \/ revoke_share_object_get_name(p)
        \/ revoke_share_object_get_object(p)
        \/ revoke_share_object_txn(p)

Spec == Init /\ [][Next]_vars

(***************************************************************************)
(* A populated share: the state that                                       *)
(*   create_share(s1); grant_share_object(s1, Database d1, {USAGE,SELECT});*)
(*   add_share_tenants(s1, [B])                                            *)
(* leave behind when the calls run one after the other on the initial      *)
(* catalog.  The store is built by the transactions of these calls.        *)
(***************************************************************************)
GrantedStore ==
    LET name == <<Tenant, "s1">>
        create == [Local("create_share_txn", "create_share", Req(name))
                      EXCEPT !.at.share_id = 1]
        created == ApplyOps(Catalog, create_share_txn_req(create).if_then)
        grant == [Local("grant_share_object_txn", "grant_share_object", Req(name))
                     EXCEPT !.req.object = DbName("d1"),
                            !.req.privilege = Privileges,
                            !.at.share_id_seq = created[ShareNameIdent(name)].seq,
                            !.at.share_id = 1,
                            !.at.share_meta_seq = created[ShareId(1)].seq,
                            !.at.share_meta = created[ShareId(1)].val,
                            !.at.seq_and_id =
                                SeqAndIdDatabase(created[DatabaseId(1)].seq, 1,
                                                 created[DatabaseId(1)].val)]
    IN  ApplyOps(created, grant_share_object_txn_req(grant).if_then)

SharedStore ==
    LET name == <<Tenant, "s1">>
        key == ShareAccountNameIdent("B", 1)
        add == [Local("add_share_tenants_txn", "add_share_tenants", Req(name))
                   EXCEPT !.req.accounts = <<"B">>,
                          !.at.share_id_seq = GrantedStore[ShareNameIdent(name)].seq,
                          !.at.share_id = 1,
                          !.at.share_meta_seq = GrantedStore[ShareId(1)].seq,
                          !.at.share_meta = GrantedStore[ShareId(1)].val,
                          !.at.keys = <<txn_cond_seq(key, 0)>>]
    IN  ApplyOps(GrantedStore, add_share_tenants_txn_req(add).if_then)

InitShared ==
    /\ kv = SharedStore
    /\ id_gen = 1
    /\ proc = [p \in Procs |-> IdleLocal]
    /\ calls = 0
    /\ ret = NoRet

\* The callers of Spec, started on the populated share.
SpecShared == InitShared /\ [][Next]_vars

(***************************************************************************)
(* A race of creators: concurrent create_share calls of one name, started  *)
(* on the initial catalog, where the name is absent.                       *)
(***************************************************************************)
Creators == {"p1", "p2", "p3"}
RacedName == <<Tenant, "s1">>

create_share_race_call(p) ==
    Invoke(p, "create_share", Req(RacedName), "create_share_get", MaxCreators)

InitCreate ==
    /\ kv = Catalog
    /\ id_gen = 0
    /\ proc = [p \in Creators |-> IdleLocal]
    /\ calls = 0
    /\ ret = NoRet

NextCreate ==
    \E p \in Creators :
        \/ create_share_race_call(p)
        \/ create_share_get(p)
        \/ create_share_fetch_id(p)
        \/ create_share_txn(p)

SpecCreate == InitCreate /\ [][NextCreate]_vars

(***************************************************************************)
(* A race of adders: concurrent add_share_tenants(s1, [B]) calls, started  *)
(* on the share s1 without accounts (the store after create_share and      *)
(* grant_share_object).                                                    *)
(***************************************************************************)
RacedAccount == "B"
AddReq == [Req(RacedName) EXCEPT !.accounts = <<RacedAccount>>, !.set = {"accounts"}]

add_share_tenants_race_call(p) ==
    Invoke(p, "add_share_tenants", AddReq, "add_share_tenants_get_name", MaxAdders)

InitAdd ==
    /\ kv = GrantedStore
    /\ id_gen = 1
    /\ proc = [p \in Creators |-> IdleLocal]
    /\ calls = 0
    /\ ret = NoRet

NextAdd ==
    \E p \in Creators :
        \/ add_share_tenants_race_call(p)
        \/ add_share_tenants_get_name(p)
        \/ add_share_tenants_get_meta(p)
        \/ add_share_tenants_txn(p)

SpecAdd == InitAdd /\ [][NextAdd]_vars

(***************************************************************************)
(* An interfering store: while a caller holds the values of an attempt     *)
(* and is about to send its transaction, a foreign commit writes a record  *)
(* that the transaction pins.  The caller runs on the populated share.     *)
(***************************************************************************)
FirstPc ==
    [create_share |-> "create_share_get",
     drop_share |-> "drop_share_get_name",
     add_share_tenants |-> "add_share_tenants_get_name",
     remove_share_tenants |-> "remove_share_tenants_get_name",
     grant_share_object |-> "grant_share_object_get_name",
     revoke_share_object |-> "revoke_share_object_get_name"]

victim_call(p) ==
    \E op \in DOMAIN FirstPc, name \in ShareNames :
        Invoke(p, op, Req(name), FirstPc[op], MaxVictimCalls)

\* The transaction a caller is about to send.
TxnPcs ==
    {"create_share_txn", "drop_share_txn", "add_share_tenants_txn",
     "remove_share_tenants_txn", "grant_share_object_txn", "revoke_share_object_txn"}
PendingTxn(l) ==
    CASE l.pc = "create_share_txn" -> create_share_txn_req(l)
      [] l.pc = "drop_share_txn" -> drop_share_txn_req(l)
      [] l.pc = "add_share_tenants_txn" -> add_share_tenants_txn_req(l)
      [] l.pc = "remove_share_tenants_txn" -> remove_share_tenants_txn_req(l)
      [] l.pc = "grant_share_object_txn" -> grant_share_object_txn_req(l)
      [] l.pc = "revoke_share_object_txn" -> revoke_share_object_txn_req(l)

\* A foreign commit rewrites a present record that the pending transaction
\* pins: the value stays, the seq moves on.
foreign_rewrite(p) ==
    /\ proc[p].pc \in TxnPcs
    /\ ~proc[p].hit
    /\ \E i \in 1..Len(PendingTxn(proc[p]).condition) :
           LET key == PendingTxn(proc[p]).condition[i].key
           IN  /\ Exists(key)
               /\ GetSeq(key) = PendingTxn(proc[p]).condition[i].seq
               /\ kv' = ApplyOp(kv, txn_op_put(key, GetVal(key)))
    /\ proc' = [proc EXCEPT ![p].hit = TRUE]
    /\ ret' = NoRet
    /\ UNCHANGED <<id_gen, calls>>

\* A foreign create_share of the same name commits before the caller's
\* create_share transaction: the name the transaction pins as absent is there.
foreign_create(p) ==
    LET foreign == [Local("create_share_txn", "create_share", Req(proc[p].req.share_name))
                       EXCEPT !.at.share_id = id_gen + 1]
    IN  /\ proc[p].pc = "create_share_txn"
        /\ ~proc[p].hit
        /\ TxnSucc(create_share_txn_req(foreign))
        /\ id_gen' = id_gen + 1
        /\ kv' = TxnStore(create_share_txn_req(foreign))
        /\ proc' = [proc EXCEPT ![p].hit = TRUE]
        /\ ret' = NoRet
        /\ UNCHANGED calls

NextAdv ==
    \E p \in Procs :
        \/ victim_call(p)
        \/ foreign_rewrite(p)
        \/ foreign_create(p)
        \/ create_share_get(p)
        \/ create_share_fetch_id(p)
        \/ create_share_txn(p)
        \/ drop_share_get_name(p)
        \/ drop_share_get_meta(p)
        \/ drop_share_get_id_to_name(p)
        \/ drop_share_get_account(p)
        \/ drop_share_txn(p)
        \/ add_share_tenants_get_name(p)
        \/ add_share_tenants_get_meta(p)
        \/ add_share_tenants_txn(p)
        \/ remove_share_tenants_get_name(p)
        \/ remove_share_tenants_get_meta(p)
        \/ remove_share_tenants_get_account(p)
        \/ remove_share_tenants_txn(p)
        \/ grant_share_object_get_name(p)
        \/ grant_share_object_get_object(p)
        \/ grant_share_object_txn(p)
        \/ revoke_share_object_get_name(p)
        \/ revoke_share_object_get_object(p)
        \/ revoke_share_object_txn(p)

SpecAdv == InitShared /\ [][NextAdv]_vars

(***************************************************************************)
(* The records of the share key spaces, as the invariants read them.       *)
(***************************************************************************)
AllocatedIds == 1..id_gen
DbIds == {1, 2}
TableIds == {1, 2}
GrantObjects ==
    {ShareGrantObject("Database", d) : d \in DbIds} \cup
    {ShareGrantObject("Table", t) : t \in TableIds}

ShareExists(share_id) == Exists(ShareId(share_id))
MetaOf(share_id) == GetVal(ShareId(share_id))
GrantEntries(share_meta) ==
    share_meta.entries \cup
    (IF IsSome(share_meta.database) THEN {Unwrap(share_meta.database)} ELSE {})
SharedByIds(object) ==
    IF Exists(ObjectKey(object)) THEN GetVal(ObjectKey(object)).share_ids ELSE {}
DbSharedBy(db_id) == GetVal(DatabaseId(db_id)).shared_by
AccountRecords(share_id) ==
    {a \in Accounts : Exists(ShareAccountNameIdent(a, share_id))}
\* The database under which the catalog resolves a table id.
TableDbId(table_id) ==
    CHOOSE d \in DbIds : \E k \in DOMAIN Catalog :
        k.k = "DBIdTableName" /\ k.n = d /\ Catalog[k].val = table_id
Dropped(share_id) ==
    share_id \in AllocatedIds /\ ~ShareExists(share_id) /\ Get(kv, ShareId(share_id)).hw > 0

(***************************************************************************)
(* Invariants of the stored records.                                       *)
(***************************************************************************)
\* C1: the forward record name -> share_id exists iff the reverse record
\* share_id -> name exists, and the reverse record of that share_id holds
\* exactly that name.
NameIdBijection ==
    /\ \A name \in ShareNames :
           Exists(ShareNameIdent(name)) =>
               /\ Exists(ShareIdToName(GetVal(ShareNameIdent(name))))
               /\ GetVal(ShareIdToName(GetVal(ShareNameIdent(name)))) = name
    /\ \A share_id \in AllocatedIds :
           Exists(ShareIdToName(share_id)) =>
               /\ Exists(ShareNameIdent(GetVal(ShareIdToName(share_id))))
               /\ GetVal(ShareNameIdent(GetVal(ShareIdToName(share_id)))) = share_id

\* A share exists under a name and another share_id has been dropped.
NameIdBijectionWitness ==
    /\ \E name \in ShareNames : Exists(ShareNameIdent(name))
    /\ \E share_id \in AllocatedIds : Dropped(share_id)

\* C2: the record share_id -> ShareMeta exists iff the reverse record
\* share_id -> name exists.
MetaPresence ==
    \A share_id \in AllocatedIds :
        Exists(ShareId(share_id)) <=> Exists(ShareIdToName(share_id))

\* A share with both records exists next to a dropped share_id that has
\* neither.
MetaPresenceWitness ==
    /\ \E share_id \in AllocatedIds :
           ShareExists(share_id) /\ Exists(ShareIdToName(share_id))
    /\ \E share_id \in AllocatedIds :
           Dropped(share_id) /\ ~Exists(ShareIdToName(share_id))

\* C3: for every existing share, ShareMeta.accounts is the set of accounts
\* that have a ShareAccountNameIdent(account, share_id) record.
AccountSymmetry ==
    \A share_id \in AllocatedIds :
        ShareExists(share_id) => MetaOf(share_id).accounts = AccountRecords(share_id)

\* A remove_share_tenants call has committed with its second transaction,
\* after a concurrent commit on the same share made its first one fail, and
\* the share holds an account next to the removed one.
AccountSymmetryWitness ==
    /\ ret.op = "remove_share_tenants"
    /\ ret.committed
    /\ ret.submitted = 2
    /\ \E share_id \in AllocatedIds :
           /\ ShareExists(share_id)
           /\ GetVal(ShareIdToName(share_id)) = ret.req.share_name
           /\ MetaOf(share_id).accounts # {}
           /\ \E a \in Accounts :
                  /\ a \notin MetaOf(share_id).accounts
                  /\ Get(kv, ShareAccountNameIdent(a, share_id)).hw > 0

\* C4: for every existing share and every grant entry of its ShareMeta,
\* share_id is a member of ObjectSharedByShareIds of the entry's object.
ReverseIndexComplete ==
    \A share_id \in AllocatedIds :
        ShareExists(share_id) =>
            \A e \in GrantEntries(MetaOf(share_id)) : share_id \in SharedByIds(e.object)

\* C5: every member of ObjectSharedByShareIds[O] is an existing share whose
\* ShareMeta holds a grant entry for O.
ReverseIndexSound ==
    \A object \in GrantObjects :
        \A share_id \in SharedByIds(object) :
            /\ ShareExists(share_id)
            /\ IsSome(get_grant_entry(MetaOf(share_id), object))

\* C6: a table entry exists only in a share whose database entry is present
\* and is the database under which the table resolves.
DbBeforeTable ==
    \A share_id \in AllocatedIds :
        ShareExists(share_id) =>
            \A e \in MetaOf(share_id).entries :
                /\ e.object.kind = "Table"
                /\ IsSome(MetaOf(share_id).database)
                /\ Unwrap(MetaOf(share_id).database).object =
                       ShareGrantObject("Database", TableDbId(e.object.id))

\* A revoke of every privilege of the granted database has just been
\* refused in a share that holds a table entry.
DbBeforeTableWitness ==
    /\ ret.op = "revoke_share_object"
    /\ ret.req.object.kind = "Database"
    /\ ret.result.kind = "WrongShareObject"
    /\ Exists(ShareNameIdent(ret.req.share_name))
    /\ LET share_meta == MetaOf(GetVal(ShareNameIdent(ret.req.share_name)))
           database == get_grant_entry(share_meta, ShareGrantObject("Database",
                           GetVal(DatabaseNameIdent(Tenant, ret.req.object.db))))
       IN  /\ share_meta.entries # {}
           /\ IsSome(database)
           /\ Unwrap(database).privileges \subseteq ret.req.privilege

\* C7: share_id is in DbMeta(db_id).shared_by iff the share exists and its
\* database entry is a grant of Database(db_id).
DbSharedByMirror ==
    \A db_id \in DbIds, share_id \in AllocatedIds :
        share_id \in DbSharedBy(db_id) <=>
            /\ ShareExists(share_id)
            /\ IsSome(get_grant_entry(MetaOf(share_id),
                                      ShareGrantObject("Database", db_id)))

\* C8: the owning tenant of a share is not in ShareMeta.accounts and has no
\* ShareAccountNameIdent record of that share.
NoSelfSharing ==
    \A share_id \in AllocatedIds :
        ShareExists(share_id) /\ Exists(ShareIdToName(share_id)) =>
            LET owner == GetVal(ShareIdToName(share_id))[1]
            IN  /\ owner \notin MetaOf(share_id).accounts
                /\ ~Exists(ShareAccountNameIdent(owner, share_id))

\* An add_share_tenants call that named the owning tenant has just committed.
NoSelfSharingWitness ==
    /\ ret.op = "add_share_tenants"
    /\ ret.committed
    /\ \E i \in 1..Len(ret.req.accounts) : ret.req.accounts[i] = ret.req.share_name[1]

\* C9: in a race of create_share calls of one name that starts with the name
\* absent, the name is written once; every call that returns leaves the name
\* present; the call that committed returns the share_id stored under the
\* name, every other call returns ShareAlreadyExists, or that same share_id
\* when if_not_exists is set; and the name's share is the only share: one
\* ShareMeta and one reverse record, those of the stored share_id.
ConcurrentCreators ==
    LET name_key == ShareNameIdent(RacedName)
    IN  /\ Get(kv, name_key).hw <= 1
        /\ ret.op = "create_share" =>
               /\ Exists(name_key)
               /\ IF ret.committed \/ ret.req.flag
                  THEN ret.result = CreateShareReply(GetVal(name_key))
                  ELSE ret.result = Err("ShareAlreadyExists")
        /\ \A share_id \in AllocatedIds :
               /\ Exists(ShareId(share_id)) <=>
                      Exists(name_key) /\ GetVal(name_key) = share_id
               /\ Exists(ShareIdToName(share_id)) <=>
                      Exists(name_key) /\ GetVal(name_key) = share_id
               /\ Exists(ShareIdToName(share_id)) =>
                      GetVal(ShareIdToName(share_id)) = RacedName

\* A creator that sent its transaction and lost the race has returned the
\* winner's share_id under if_not_exists, after every creator got an id.
ConcurrentCreatorsWitness ==
    /\ ret.op = "create_share"
    /\ ~ret.committed
    /\ ret.submitted = 1
    /\ ret.req.flag
    /\ ret.result = CreateShareReply(GetVal(ShareNameIdent(RacedName)))
    /\ id_gen = Cardinality(Creators)

\* C10 (as stated): a call that sent at least one transaction, with a foreign
\* write to a pinned record before each of them, ends with TxnRetryMaxTimes.
RetryExhaustedUnderInterference ==
    ret.pc = "done" /\ ret.submitted >= 1 /\ ret.injected = ret.submitted =>
        ret.result.kind = "TxnRetryMaxTimes"

\* C10: a call makes at most TXN_MAX_RETRY_TIMES attempts and sends at most
\* one transaction per attempt; a call other than create_share whose every
\* transaction was sent after a foreign rewrite of a present record that it
\* pins has applied none (create_share pins absent records only); the call
\* ends with TxnRetryMaxTimes exactly when it has sent TXN_MAX_RETRY_TIMES
\* transactions and none was applied, and the error then carries the
\* operation name and TXN_MAX_RETRY_TIMES.
RetryBound ==
    /\ \A p \in DOMAIN proc :
           /\ proc[p].retry <= TXN_MAX_RETRY_TIMES
           /\ proc[p].submitted <= proc[p].retry
           /\ proc[p].injected <= proc[p].submitted
    /\ ret.pc = "done" =>
           /\ ret.retry <= TXN_MAX_RETRY_TIMES
           /\ ret.submitted <= ret.retry
           /\ ret.op # "create_share" /\ ret.submitted >= 1
                  /\ ret.injected = ret.submitted => ~ret.committed
           /\ ret.result.kind = "TxnRetryMaxTimes" <=>
                  ret.submitted = TXN_MAX_RETRY_TIMES /\ ~ret.committed
           /\ ret.result.kind = "TxnRetryMaxTimes" =>
                  ret.result = Reply("TxnRetryMaxTimes", 0, ret.op, TXN_MAX_RETRY_TIMES)

\* A revoke_share_object call has ended with TxnRetryMaxTimes after a foreign
\* write before each of its TXN_MAX_RETRY_TIMES transactions.
RetryBoundWitness ==
    /\ ret.pc = "done"
    /\ ret.op = "revoke_share_object"
    /\ ret.result.kind = "TxnRetryMaxTimes"
    /\ ret.injected = TXN_MAX_RETRY_TIMES
    /\ ret.submitted = TXN_MAX_RETRY_TIMES

(***************************************************************************)
(* Contracts of single calls.  A step of caller p changes proc[p]; the     *)
(* caller's record after the step is ret' when the step returned.          *)
(***************************************************************************)
Moved(p) == proc'[p] # proc[p]
Post(p) == IF proc[p].pc # "idle" /\ proc'[p].pc = "idle" THEN ret' ELSE proc'[p]

\* The object a request names, as the catalog resolves it.
Resolves(req) == get_share_object_seq_and_id(req.object, req.share_name[1]).err = ""
ObjectOfReq(req) ==
    ObjectOf(get_share_object_seq_and_id(req.object, req.share_name[1]).seq_and_id)

\* Every bit of `privilege` is set in the share's grant entry of the object.
Granted(share_id, req, privilege) ==
    /\ ShareExists(share_id)
    /\ Resolves(req)
    /\ LET e == get_grant_entry(MetaOf(share_id), ObjectOfReq(req))
       IN  IsSome(e) /\ privilege \subseteq Unwrap(e).privileges

\* C11: an attempt of grant_share_object that reads the object and finds
\* every requested privilege bit set in the share's grant entry of that
\* object returns success in that step: it sends no transaction and the
\* store (ShareMeta, ObjectSharedByShareIds, DbMeta, every seq) is unchanged.
GrantAlreadyGranted ==
    [][\A p \in DOMAIN proc :
          /\ proc[p].pc = "grant_share_object_get_object"
          /\ Moved(p)
          /\ "object" \in Post(p).req.set
          /\ \E privilege \in Choices(Post(p), "privilege", PrivilegeSets) :
                 Granted(proc[p].at.share_id, Post(p).req, privilege)
          => /\ Post(p).pc = "done"
             /\ Post(p).result = Ok
             /\ Post(p).submitted = proc[p].submitted
             /\ kv' = kv]_vars

\* A grant_share_object call of a table whose privileges were all granted
\* has returned success without a transaction.
GrantAlreadyGrantedWitness ==
    /\ ret.pc = "done"
    /\ ret.op = "grant_share_object"
    /\ ret.result = Ok
    /\ ret.submitted = 0
    /\ ret.req.object.kind = "Table"
    /\ "privilege" \in ret.req.set
    /\ Exists(ShareNameIdent(ret.req.share_name))
    /\ Granted(GetVal(ShareNameIdent(ret.req.share_name)), ret.req, ret.req.privilege)

\* The database of the object a request names, and whether the object falls
\* outside the share: a table while no database is granted, or an object of
\* another database than the granted one.
DbIdOfReq(req) == GetVal(DatabaseNameIdent(req.share_name[1], req.object.db))
OutsideShare(share_id, req) ==
    IF IsSome(MetaOf(share_id).database)
    THEN Unwrap(MetaOf(share_id).database).object.id # DbIdOfReq(req)
    ELSE req.object.kind = "Table"

\* A step of revoke_share_object that reads an existing object of which some
\* requested privilege is not granted in the share.
RevokesNotGranted(p) ==
    /\ proc[p].pc = "revoke_share_object_get_object"
    /\ Moved(p)
    /\ "object" \in Post(p).req.set
    /\ ShareExists(proc[p].at.share_id)
    /\ Resolves(Post(p).req)
    /\ \E privilege \in Choices(Post(p), "privilege", PrivilegeSets) :
           ~Granted(proc[p].at.share_id, Post(p).req, privilege)

\* C12 (as stated): revoke_share_object of any existing (object, privileges)
\* pair that is not granted in the share returns success and changes nothing.
RevokeNotGrantedSucceeds ==
    [][\A p \in DOMAIN proc :
          RevokesNotGranted(p)
          => /\ Post(p).pc = "done"
             /\ Post(p).result = Ok
             /\ kv' = kv]_vars

\* C12: revoke_share_object of an existing (object, privileges) pair that is
\* not granted in the share sends no transaction and changes nothing; it
\* returns success when the object is inside the share (a database while no
\* database is granted, the granted database, or a table of the granted
\* database, with no entry or with an entry that lacks a requested bit) and
\* fails with WrongShareObject when it is a table while no database is
\* granted or an object of another database than the granted one.
RevokeNotGranted ==
    [][\A p \in DOMAIN proc :
          RevokesNotGranted(p)
          => /\ Post(p).pc = "done"
             /\ Post(p).submitted = proc[p].submitted
             /\ Post(p).result = IF OutsideShare(proc[p].at.share_id, Post(p).req)
                                 THEN Err("WrongShareObject") ELSE Ok
             /\ kv' = kv]_vars

\* A revoke_share_object call has returned success without a transaction
\* for an object whose entry holds some but not all of the requested bits.
RevokeNotGrantedWitness ==
    /\ ret.pc = "done"
    /\ ret.op = "revoke_share_object"
    /\ ret.result = Ok
    /\ ret.submitted = 0
    /\ "privilege" \in ret.req.set
    /\ Exists(ShareNameIdent(ret.req.share_name))
    /\ LET share_id == GetVal(ShareNameIdent(ret.req.share_name))
           e == get_grant_entry(MetaOf(share_id), ObjectOfReq(ret.req))
       IN  /\ Resolves(ret.req)
           /\ IsSome(e)
           /\ Unwrap(e).privileges \cap ret.req.privilege # {}
           /\ ~(ret.req.privilege \subseteq Unwrap(e).privileges)

\* C13: in a race of add_share_tenants(s1, [B]) calls that starts with B not
\* an account of s1, one transaction is applied: the account record and the
\* ShareMeta are written once.  The call whose transaction was applied
\* returns success; a call whose transaction failed retries, observes B
\* present and returns ShareAccountsAlreadyExists.  When a call has returned,
\* ShareMeta.accounts is {B} and B's record is the only account record.
ConcurrentAdd ==
    LET share_id == GetVal(ShareNameIdent(RacedName))
        key == ShareAccountNameIdent(RacedAccount, share_id)
    IN  /\ Get(kv, key).hw <= 1
        /\ Get(kv, ShareId(share_id)).hw <= GrantedStore[ShareId(share_id)].hw + 1
        /\ ret.op = "add_share_tenants" =>
               /\ Exists(key)
               /\ Get(kv, key).hw = 1
               /\ MetaOf(share_id).accounts = {RacedAccount}
               /\ AccountRecords(share_id) = {RacedAccount}
               /\ IF ret.committed
                  THEN ret.result = Ok /\ ret.submitted = 1
                  ELSE /\ ret.result = Err("ShareAccountsAlreadyExists")
                       /\ ret.submitted <= 1
                       /\ ret.retry = ret.submitted + 1

\* Both calls read the state without B and sent a transaction: the second
\* one has failed, retried and returned ShareAccountsAlreadyExists.
ConcurrentAddWitness ==
    /\ ret.op = "add_share_tenants"
    /\ ~ret.committed
    /\ ret.submitted = 1
    /\ ret.retry = 2
    /\ ret.result = Err("ShareAccountsAlreadyExists")
    /\ MetaOf(GetVal(ShareNameIdent(RacedName))).accounts = {RacedAccount}

\* The accounts a request lists, and those of them that add_share_tenants
\* has to add: not the owning tenant and not yet accounts of the share.
Listed(req) == {req.accounts[i] : i \in 1..Len(req.accounts)}
ToAdd(share_id, req) ==
    {a \in Listed(req) : a # req.share_name[1] /\ a \notin MetaOf(share_id).accounts}
AccountKeys(share_id, accounts) == {ShareAccountNameIdent(a, share_id) : a \in accounts}
\* Every record outside `keys` is the same before and after the step.
SameOutside(keys) ==
    \A k \in (DOMAIN kv \cup DOMAIN kv') \ keys : Get(kv', k) = Get(kv, k)

\* C14: an attempt of add_share_tenants that reads a share fails with
\* ShareAccountsAlreadyExists exactly when no requested account is left after
\* skipping the owning tenant and the accounts already present, and sends a
\* transaction otherwise.  The step that applies the transaction returns
\* success, adds exactly those accounts to ShareMeta.accounts, writes the
\* ShareAccountMeta record of each of them and leaves every other record as
\* it was; every other step of the call writes nothing.
AddTenantsContract ==
    [][\A p \in DOMAIN proc :
          Moved(p) /\ proc[p].op = "add_share_tenants" =>
              LET share_id == proc[p].at.share_id
                  added == ToAdd(share_id, proc[p].req)
              IN  /\ proc[p].pc = "add_share_tenants_get_meta" /\ ShareExists(share_id) =>
                         IF ToAdd(share_id, Post(p).req) = {}
                         THEN /\ Post(p).pc = "done"
                              /\ Post(p).result = Err("ShareAccountsAlreadyExists")
                         ELSE Post(p).pc = "add_share_tenants_txn"
                  /\ IF Post(p).committed
                     THEN /\ Post(p).result = Ok
                          /\ added # {}
                          /\ Get(kv', ShareId(share_id)).seq > 0
                          /\ Get(kv', ShareId(share_id)).val =
                                 [MetaOf(share_id) EXCEPT !.accounts = @ \cup added]
                          /\ \A a \in added :
                                 LET record == Get(kv', ShareAccountNameIdent(a, share_id))
                                 IN  /\ record.seq > 0
                                     /\ record.val = ShareAccountMeta(a, share_id)
                          /\ SameOutside({ShareId(share_id)} \cup AccountKeys(share_id, added))
                     ELSE kv' = kv]_vars

\* add_share_tenants(s1, [B, C, A]) has committed on a share of tenant A that
\* held B: the share holds B and C, and A has no record.
AddTenantsContractWitness ==
    /\ ret.op = "add_share_tenants"
    /\ ret.committed
    /\ ret.req.accounts = <<"B", "C", "A">>
    /\ Exists(ShareNameIdent(ret.req.share_name))
    /\ LET share_id == GetVal(ShareNameIdent(ret.req.share_name))
       IN  /\ MetaOf(share_id).accounts = {"B", "C"}
           /\ Get(kv, ShareAccountNameIdent("B", share_id)).hw = 1
           /\ ~Exists(ShareAccountNameIdent("A", share_id))

\* The requested accounts that are accounts of the share.
ToRemove(share_id, req) ==
    {a \in Listed(req) : a \in MetaOf(share_id).accounts}

\* C15: an attempt of remove_share_tenants that reads a share in which none
\* of the requested accounts is present fails with UnknownShareAccounts.  The
\* step that applies the transaction returns success, removes exactly the
\* requested accounts that are present from ShareMeta.accounts, deletes the
\* ShareAccountNameIdent record of each of them and leaves every other record
\* as it was, so that none of the requested accounts is present afterwards;
\* every other step of the call writes nothing.
RemoveTenantsContract ==
    [][\A p \in DOMAIN proc :
          Moved(p) /\ proc[p].op = "remove_share_tenants" =>
              LET share_id == proc[p].at.share_id
                  removed == ToRemove(share_id, proc[p].req)
              IN  /\ proc[p].pc = "remove_share_tenants_get_meta" /\ ShareExists(share_id) =>
                         IF ToRemove(share_id, Post(p).req) = {}
                         THEN /\ Post(p).pc = "done"
                              /\ Post(p).result = Err("UnknownShareAccounts")
                         ELSE Post(p).pc = "remove_share_tenants_get_account"
                  /\ IF Post(p).committed
                     THEN /\ Post(p).result = Ok
                          /\ removed # {}
                          /\ Get(kv', ShareId(share_id)).seq > 0
                          /\ Get(kv', ShareId(share_id)).val =
                                 [MetaOf(share_id) EXCEPT !.accounts = @ \ removed]
                          /\ Get(kv', ShareId(share_id)).val.accounts
                                 \cap Listed(proc[p].req) = {}
                          /\ \A a \in removed :
                                 Get(kv', ShareAccountNameIdent(a, share_id)).seq = 0
                          /\ SameOutside({ShareId(share_id)}
                                         \cup AccountKeys(share_id, removed))
                     ELSE kv' = kv]_vars

\* remove_share_tenants(s1, [B]) has failed with UnknownShareAccounts on a
\* share from which an earlier call removed B.
RemoveTenantsContractWitness ==
    /\ ret.op = "remove_share_tenants"
    /\ ret.result = Err("UnknownShareAccounts")
    /\ ret.req.accounts = <<"B">>
    /\ Exists(ShareNameIdent(ret.req.share_name))
    /\ LET share_id == GetVal(ShareNameIdent(ret.req.share_name))
       IN  /\ ShareExists(share_id)
           /\ Get(kv, ShareAccountNameIdent("B", share_id)).hw = 1
           /\ ~Exists(ShareAccountNameIdent("B", share_id))

\* C16: an attempt of grant_share_object that reads an existing object
\* outside the share (a table while the share has no database grant; a
\* database or a table of another database than the granted one) fails with
\* WrongShareObject in that step: it sends no transaction and writes nothing.
GrantOutsideShare ==
    [][\A p \in DOMAIN proc :
          /\ proc[p].pc = "grant_share_object_get_object"
          /\ Moved(p)
          /\ "object" \in Post(p).req.set
          /\ ShareExists(proc[p].at.share_id)
          /\ Resolves(Post(p).req)
          /\ OutsideShare(proc[p].at.share_id, Post(p).req)
          => /\ Post(p).pc = "done"
             /\ Post(p).result = Err("WrongShareObject")
             /\ Post(p).submitted = proc[p].submitted
             /\ kv' = kv]_vars

\* A grant of a table of another database than the granted one has failed
\* with WrongShareObject.
GrantOutsideShareWitness ==
    /\ ret.op = "grant_share_object"
    /\ ret.result = Err("WrongShareObject")
    /\ ret.req.object.kind = "Table"
    /\ Exists(ShareNameIdent(ret.req.share_name))
    /\ Resolves(ret.req)
    /\ LET share_meta == MetaOf(GetVal(ShareNameIdent(ret.req.share_name)))
       IN  /\ IsSome(share_meta.database)
           /\ Unwrap(share_meta.database).object.id # DbIdOfReq(ret.req)

\* C17: an attempt of drop_share, add_share_tenants or remove_share_tenants
\* that finds no record under the share name ends the call in that step,
\* with an empty success reply when if_exists is true and with UnknownShare
\* when it is false; it sends no transaction and writes nothing.
UnknownShareContract ==
    [][\A p \in DOMAIN proc :
          /\ Moved(p)
          /\ proc[p].pc \in {"drop_share_get_name", "add_share_tenants_get_name",
                             "remove_share_tenants_get_name"}
          /\ ~Exists(ShareNameIdent(proc[p].req.share_name))
          => /\ Post(p).pc = "done"
             /\ "flag" \in Post(p).req.set
             /\ Post(p).result = IF Post(p).req.flag THEN Ok ELSE Err("UnknownShare")
             /\ Post(p).submitted = proc[p].submitted
             /\ kv' = kv]_vars

\* A remove_share_tenants call with if_exists on a name that has no record
\* has returned the empty success reply.
UnknownShareContractWitness ==
    /\ ret.op = "remove_share_tenants"
    /\ ret.result = Ok
    /\ ret.req.flag
    /\ ~ret.committed
    /\ ~Exists(ShareNameIdent(ret.req.share_name))

\* C18: an attempt of create_share that finds the forward record of the name
\* ends the call in that step: it returns the stored share_id when
\* if_not_exists is true and ShareAlreadyExists when it is false; it
\* allocates no id, sends no transaction and writes nothing, so the existing
\* share's ShareMeta stays as it was.
CreateExisting ==
    [][\A p \in DOMAIN proc :
          /\ Moved(p)
          /\ proc[p].pc = "create_share_get"
          /\ Exists(ShareNameIdent(proc[p].req.share_name))
          => /\ Post(p).pc = "done"
             /\ "flag" \in Post(p).req.set
             /\ Post(p).result =
                    IF Post(p).req.flag
                    THEN CreateShareReply(GetVal(ShareNameIdent(proc[p].req.share_name)))
                    ELSE Err("ShareAlreadyExists")
             /\ Post(p).submitted = proc[p].submitted
             /\ id_gen' = id_gen
             /\ kv' = kv]_vars

\* A create_share call with if_not_exists has returned the share_id of an
\* existing share that holds an account and a database grant.
CreateExistingWitness ==
    /\ ret.op = "create_share"
    /\ ret.req.flag
    /\ ret.submitted = 0
    /\ Exists(ShareNameIdent(ret.req.share_name))
    /\ ret.result = CreateShareReply(GetVal(ShareNameIdent(ret.req.share_name)))
    /\ LET share_meta == MetaOf(GetVal(ShareNameIdent(ret.req.share_name)))
       IN  share_meta.accounts # {} /\ IsSome(share_meta.database)

(***************************************************************************)
(* One caller, no concurrent writer: create_share, grant_share_object of a *)
(* database, revoke_share_object of the privileges granted, drop_share,    *)
(* each started when the one before has returned.                          *)
(***************************************************************************)
Scenario == <<"create_share", "grant_share_object", "revoke_share_object", "drop_share">>
ScenarioCaller == {"p1"}

ObjectReq(name, object, privilege) ==
    [Req(name) EXCEPT !.object = object, !.privilege = privilege,
                      !.set = {"object", "privilege"}]
ExistingNames == {name \in ShareNames : Exists(ShareNameIdent(name))}
DatabaseReqs ==
    {ObjectReq(name, DbName(d), privilege) :
         name \in ExistingNames, d \in {"d1", "d2"}, privilege \in PrivilegeSets}
\* The requests the scenario makes with an operation, in the current state:
\* the revoke names the database and the privileges that the grant named.
ScenarioReqs(op) ==
    CASE op = "create_share" -> {Req(name) : name \in ShareNames}
      [] op = "grant_share_object" -> DatabaseReqs
      [] op = "revoke_share_object" ->
             {req \in DatabaseReqs :
                 LET database == MetaOf(GetVal(ShareNameIdent(req.share_name))).database
                 IN  /\ IsSome(database)
                     /\ Unwrap(database).object.id = DbIdOfReq(req)
                     /\ Unwrap(database).privileges = req.privilege}
      [] op = "drop_share" -> {Req(name) : name \in ExistingNames}

scenario_call(p) ==
    /\ calls < Len(Scenario)
    /\ \E req \in ScenarioReqs(Scenario[calls + 1]) :
           Invoke(p, Scenario[calls + 1], req, FirstPc[Scenario[calls + 1]], Len(Scenario))

InitScenario ==
    /\ kv = Catalog
    /\ id_gen = 0
    /\ proc = [p \in ScenarioCaller |-> IdleLocal]
    /\ calls = 0
    /\ ret = NoRet

\* The share of the scenario has no account: drop_share's loop over
\* share_meta.get_accounts() has no iteration.
NextScenario ==
    \E p \in ScenarioCaller :
        \/ scenario_call(p)
        \/ create_share_get(p)
        \/ create_share_fetch_id(p)
        \/ create_share_txn(p)
        \/ grant_share_object_get_name(p)
        \/ grant_share_object_get_object(p)
        \/ grant_share_object_txn(p)
        \/ revoke_share_object_get_name(p)
        \/ revoke_share_object_get_object(p)
        \/ revoke_share_object_txn(p)
        \/ drop_share_get_name(p)
        \/ drop_share_get_meta(p)
        \/ drop_share_get_id_to_name(p)
        \/ drop_share_txn(p)

SpecScenario == InitScenario /\ [][NextScenario]_vars

\* C19: in the scenario every call returns success with its first
\* transaction.  After create_share the share X exists; after the grant
\* DbMeta of the granted database holds X in shared_by; after the revoke no
\* DbMeta.shared_by and no ObjectSharedByShareIds of a database holds X;
\* after drop_share no forward, meta, reverse or account record of the share
\* exists and no reverse index holds X.
ScenarioOutcome ==
    LET X == id_gen
        After_(k) == calls = k /\ \A p \in DOMAIN proc : proc[p].pc = "idle"
        Unreferenced ==
            /\ \A db_id \in DbIds : X \notin DbSharedBy(db_id)
            /\ \A object \in GrantObjects : X \notin SharedByIds(object)
    IN  /\ ret.pc = "done" =>
               /\ ret.op = Scenario[calls]
               /\ ret.result.kind = "Ok"
               /\ ret.committed
               /\ ret.submitted = 1
        /\ After_(1) => X = 1 /\ ShareExists(X) /\ ret.result = CreateShareReply(X)
        /\ After_(2) =>
               /\ IsSome(MetaOf(X).database)
               /\ X \in DbSharedBy(Unwrap(MetaOf(X).database).object.id)
               /\ X \in SharedByIds(Unwrap(MetaOf(X).database).object)
        /\ After_(3) =>
               /\ ShareExists(X)
               /\ ~IsSome(MetaOf(X).database)
               /\ Unreferenced
        /\ After_(4) =>
               /\ ExistingNames = {}
               /\ ~Exists(ShareId(X))
               /\ ~Exists(ShareIdToName(X))
               /\ AccountRecords(X) = {}
               /\ Unreferenced

\* drop_share, the last call of the scenario, has returned.
ScenarioOutcomeWitness ==
    /\ calls = Len(Scenario)
    /\ ret.op = "drop_share"
    /\ ret.committed
    /\ Dropped(id_gen)

\* C20: every ShareAccountNameIdent(account, share_id) record belongs to an
\* existing share, and a drop_share call that has returned after its
\* transaction was applied leaves no account record of a dropped share_id.
NoOrphanAccount ==
    /\ \A share_id \in AllocatedIds, a \in Accounts :
           Exists(ShareAccountNameIdent(a, share_id)) => ShareExists(share_id)
    /\ ret.op = "drop_share" /\ ret.committed =>
           /\ ret.result = Ok
           /\ \A share_id \in AllocatedIds :
                  Dropped(share_id) => AccountRecords(share_id) = {}

\* A drop_share call whose first transaction failed against a concurrent
\* add_share_tenants has committed its second one: the records of B and of
\* the account added meanwhile are deleted.
NoOrphanAccountWitness ==
    /\ ret.op = "drop_share"
    /\ ret.committed
    /\ ret.submitted = 2
    /\ \E share_id \in AllocatedIds :
           /\ Dropped(share_id)
           /\ Get(kv, ShareAccountNameIdent("B", share_id)).hw = 1
           /\ Get(kv, ShareAccountNameIdent("C", share_id)).hw = 1
           /\ AccountRecords(share_id) = {}

\* C21: the records change only in the step in which a call's transaction
\* is applied: the conditions of the transaction hold, every write of its
\* if_then is applied in that step, the call returns and had applied no
\* transaction before.  Every other step of a call, a transaction whose
\* conditions fail included, leaves every record and every seq as it was.
AtomicCalls ==
    [][/\ kv' # kv =>
              \E p \in DOMAIN proc :
                  /\ proc[p].pc \in TxnPcs
                  /\ Moved(p)
                  /\ TxnSucc(PendingTxn(proc[p]))
                  /\ kv' = ApplyOps(kv, PendingTxn(proc[p]).if_then)
                  /\ ~proc[p].committed
                  /\ Post(p).pc = "done"
                  /\ Post(p).committed
       /\ \A p \in DOMAIN proc :
              Moved(p) /\ proc[p].pc \in TxnPcs /\ ~TxnSucc(PendingTxn(proc[p])) =>
                  /\ kv' = kv
                  /\ ~Post(p).committed]_vars

\* A grant_share_object call whose first transaction failed its conditions
\* has applied its second one.
AtomicCallsWitness ==
    /\ ret.pc = "done"
    /\ ret.op = "grant_share_object"
    /\ ret.committed
    /\ ret.submitted = 2

\* The records an attempt has read when it sends its transaction, each with
\* the seq read: the forward name record, the ShareMeta, the reverse name
\* record and the account records (drop_share, remove_share_tenants), the
\* ObjectSharedByShareIds and the DbMeta or TableMeta (grant, revoke).
Conds(s) == {s[i] : i \in 1..Len(s)}
ReadPins(l) ==
    LET name == txn_cond_seq(ShareNameIdent(l.req.share_name), l.at.share_id_seq)
        meta == txn_cond_seq(ShareId(l.at.share_id), l.at.share_meta_seq)
        id_name == txn_cond_seq(ShareIdToName(l.at.share_id), l.at.share_name_seq)
        object == txn_cond_seq(ObjectKey(ObjectOf(l.at.seq_and_id)), l.at.share_ids_seq)
        object_meta ==
            txn_cond_seq(IF l.at.seq_and_id.kind = "Database"
                         THEN DatabaseId(l.at.seq_and_id.db_id)
                         ELSE TableId(l.at.seq_and_id.id), l.at.seq_and_id.seq)
    IN  CASE l.pc = "create_share_txn" -> {txn_cond_seq(ShareNameIdent(l.req.share_name), 0)}
          [] l.pc = "drop_share_txn" -> {name, meta, id_name} \cup Conds(l.at.keys)
          [] l.pc = "add_share_tenants_txn" -> {name, meta}
          [] l.pc = "remove_share_tenants_txn" -> {name, meta} \cup Conds(l.at.keys)
          [] l.pc \in {"grant_share_object_txn", "revoke_share_object_txn"} ->
                 {name, meta, object, object_meta}

\* C22 (as stated): the conditions of the transaction an attempt sends are
\* the records the attempt read, each at the seq read, and no other.
PinsExactlyReads ==
    \A p \in DOMAIN proc :
        proc[p].pc \in TxnPcs => Conds(PendingTxn(proc[p]).condition) = ReadPins(proc[p])

\* C22: the transaction an attempt sends is applied exactly when every
\* record the attempt read still has the seq read in that attempt; a write of
\* a concurrent call to any of these records makes the transaction fail, and
\* the attempt restarts or the call ends with TxnRetryMaxTimes.
PinnedReads ==
    [][\A p \in DOMAIN proc :
          Moved(p) /\ proc[p].pc \in TxnPcs =>
              /\ Post(p).committed <=>
                     \A c \in ReadPins(proc[p]) : GetSeq(c.key) = c.seq
              /\ ~Post(p).committed =>
                     \/ Post(p).pc = FirstPc[proc[p].op] /\ Post(p).at = Attempt
                     \/ Post(p).result.kind = "TxnRetryMaxTimes"]_vars

\* A remove_share_tenants call has sent a transaction that failed: a
\* concurrent call had written a record the attempt read.
PinnedReadsWitness ==
    /\ ret.pc = "done"
    /\ ret.op = "remove_share_tenants"
    /\ ret.submitted >= 1
    /\ ~ret.committed

\* The three keys a create_share attempt writes.
CreateKeys(l) ==
    {ShareNameIdent(l.req.share_name), ShareId(l.at.share_id), ShareIdToName(l.at.share_id)}

\* C23 (as stated): the create_share transaction is conditioned on seq == 0
\* for all three keys it writes.
CreatePinsThreeKeys ==
    \A p \in DOMAIN proc :
        proc[p].pc = "create_share_txn" =>
            Conds(create_share_txn_req(proc[p]).condition) =
                {txn_cond_seq(key, 0) : key \in CreateKeys(proc[p])}

\* C23: the create_share transaction is conditioned on seq == 0 for the
\* forward and the reverse name record, not for ShareId(share_id); it is
\* applied only when all three keys are absent, the ShareMeta because the
\* share_id is fresh, so create_share never overwrites an existing record; on
\* commit the three records are the name -> share_id, the new ShareMeta (no
\* accounts, no database, no entries) and share_id -> name.
CreateNeverOverwrites ==
    [][\A p \in DOMAIN proc :
          Moved(p) /\ proc[p].pc = "create_share_txn" =>
              LET l == proc[p]
                  req == create_share_txn_req(l)
              IN  /\ {c.key : c \in Conds(req.condition)} =
                         CreateKeys(l) \ {ShareId(l.at.share_id)}
                  /\ \A c \in Conds(req.condition) : c.seq = 0
                  /\ Post(p).committed <=> ~Exists(ShareNameIdent(l.req.share_name))
                  /\ Post(p).committed =>
                         /\ \A key \in CreateKeys(l) : ~Exists(key)
                         /\ \A key \in DOMAIN kv \ CreateKeys(l) : kv'[key] = kv[key]
                         /\ kv'[ShareNameIdent(l.req.share_name)].val = l.at.share_id
                         /\ kv'[ShareId(l.at.share_id)].val =
                                [accounts |-> {}, database |-> <<>>, entries |-> {}]
                         /\ kv'[ShareIdToName(l.at.share_id)].val = l.req.share_name
                  /\ ~Post(p).committed => kv' = kv]_vars

\* A create_share has re-created a name that was dropped, while another
\* create_share of the same name lost the race.
CreateNeverOverwritesWitness ==
    /\ ret.pc = "done"
    /\ ret.op = "create_share"
    /\ ret.committed
    /\ ret.result.share_id >= 2
    /\ kv[ShareNameIdent(ret.req.share_name)].hw >= 2

\* C24: an attempt of revoke_share_object that reads the share's granted
\* database and is asked to revoke exactly the privileges of its grant, while
\* the ShareMeta holds a table entry, ends the call with WrongShareObject in
\* that step: no transaction is sent and the store (ShareMeta.database, the
\* table entries, ObjectSharedByShareIds, DbMeta.shared_by) is unchanged.
RevokeDatabaseBeforeTables ==
    [][\A p \in DOMAIN proc :
          /\ proc[p].pc = "revoke_share_object_get_object"
          /\ Moved(p)
          /\ "object" \in Post(p).req.set
          /\ Post(p).req.object.kind = "Database"
          /\ ShareExists(proc[p].at.share_id)
          /\ Resolves(Post(p).req)
          /\ MetaOf(proc[p].at.share_id).entries # {}
          /\ \E privilege \in Choices(Post(p), "privilege", PrivilegeSets) :
                 MetaOf(proc[p].at.share_id).database =
                     Some(ShareGrantEntry(ObjectOfReq(Post(p).req), privilege))
          => /\ Post(p).pc = "done"
             /\ Post(p).result = Err("WrongShareObject")
             /\ Post(p).submitted = proc[p].submitted
             /\ ~Post(p).committed
             /\ kv' = kv]_vars

\* A revoke_share_object of exactly the privileges of the database grant has
\* failed without a transaction; the share still holds the database grant, a
\* table entry, and its id in both reverse indexes.
RevokeDatabaseBeforeTablesWitness ==
    /\ ret.pc = "done"
    /\ ret.op = "revoke_share_object"
    /\ ret.result = Err("WrongShareObject")
    /\ ret.submitted = 0
    /\ ret.req.object.kind = "Database"
    /\ Exists(ShareNameIdent(ret.req.share_name))
    /\ LET share_id == GetVal(ShareNameIdent(ret.req.share_name))
       IN  /\ MetaOf(share_id).database =
                  Some(ShareGrantEntry(ObjectOfReq(ret.req), ret.req.privilege))
           /\ \E e \in MetaOf(share_id).entries : share_id \in SharedByIds(e.object)
           /\ share_id \in DbSharedBy(DbIdOfReq(ret.req))

\* The error the object resolver has for a request, "" when the named
\* database and, for a table, the named table of that database exist.
UnknownObject(req) ==
    IF ~Exists(DatabaseNameIdent(req.share_name[1], req.object.db)) THEN "UnknownDatabase"
    ELSE IF req.object.kind = "Table" /\ ~Exists(DBIdTableName(DbIdOfReq(req), req.object.table))
    THEN "UnknownTable"
    ELSE ""

\* C26: an attempt of grant_share_object or revoke_share_object ends the call
\* with UnknownShare when it finds no forward record of the share name, and,
\* once it has the share, with UnknownDatabase when the named database does
\* not exist in the owner's tenant and with UnknownTable when the named table
\* does not exist in that database; the step sends no transaction and changes
\* no record, whatever the request holds.
UnknownNames ==
    [][\A p \in DOMAIN proc :
          Moved(p) =>
              /\ /\ proc[p].pc \in {"grant_share_object_get_name",
                                    "revoke_share_object_get_name"}
                 /\ ~Exists(ShareNameIdent(proc[p].req.share_name))
                 => /\ Post(p).pc = "done"
                    /\ Post(p).result = Err("UnknownShare")
                    /\ Post(p).submitted = proc[p].submitted
                    /\ kv' = kv
              /\ /\ proc[p].pc \in {"grant_share_object_get_object",
                                    "revoke_share_object_get_object"}
                 /\ ShareExists(proc[p].at.share_id)
                 /\ "object" \in Post(p).req.set
                 /\ UnknownObject(Post(p).req) # ""
                 => /\ Post(p).pc = "done"
                    /\ Post(p).result = Err(UnknownObject(Post(p).req))
                    /\ Post(p).submitted = proc[p].submitted
                    /\ kv' = kv]_vars

\* A revoke_share_object call on an existing share has failed without a
\* transaction on a table that does not exist in an existing database.
UnknownNamesWitness ==
    /\ ret.pc = "done"
    /\ ret.op = "revoke_share_object"
    /\ ret.submitted = 0
    /\ ret.result = Err("UnknownTable")
    /\ Exists(ShareNameIdent(ret.req.share_name))
    /\ ret.req.object.kind = "Table"
    /\ Exists(DatabaseNameIdent(ret.req.share_name[1], ret.req.object.db))

\* No record was ever stored under share_id, and no record holds it.
NeverUsed(share_id) ==
    /\ Get(kv, ShareId(share_id)).hw = 0
    /\ Get(kv, ShareIdToName(share_id)).hw = 0
    /\ \A a \in Accounts : Get(kv, ShareAccountNameIdent(a, share_id)).hw = 0
    /\ \A name \in ShareNames :
           Exists(ShareNameIdent(name)) => GetVal(ShareNameIdent(name)) # share_id
    /\ \A object \in GrantObjects : share_id \notin SharedByIds(object)
    /\ \A db_id \in DbIds : share_id \notin DbSharedBy(db_id)

\* C27: in every reachable state two existing share names hold different
\* share ids; each share_id was stored by at most one create_share, and the
\* create_share that commits, a re-creation after drop_share included, stores
\* a share_id under which no record was ever stored and which no record left
\* behind by an earlier share holds.
ShareIdNeverReused ==
    /\ [](/\ \A n1, n2 \in ShareNames :
               /\ Exists(ShareNameIdent(n1))
               /\ Exists(ShareNameIdent(n2))
               /\ GetVal(ShareNameIdent(n1)) = GetVal(ShareNameIdent(n2))
               => n1 = n2
          /\ \A name \in ShareNames :
               Exists(ShareNameIdent(name)) => GetVal(ShareNameIdent(name)) \in AllocatedIds
          /\ \A share_id \in AllocatedIds : Get(kv, ShareIdToName(share_id)).hw <= 1)
    /\ [][\A p \in DOMAIN proc :
             Moved(p) /\ proc[p].pc = "create_share_txn" /\ Post(p).committed =>
                 /\ NeverUsed(proc[p].at.share_id)
                 /\ kv'[ShareNameIdent(proc[p].req.share_name)].val = proc[p].at.share_id]_vars

\* A name has been created again after its share was dropped: the new share
\* has another id than the dropped one, which the reverse index of the
\* database still holds.
ShareIdNeverReusedWitness ==
    /\ ret.pc = "done"
    /\ ret.op = "create_share"
    /\ ret.committed
    /\ \E share_id \in AllocatedIds :
           /\ Dropped(share_id)
           /\ GetVal(ShareIdToName(ret.result.share_id)) = ret.req.share_name
           /\ Get(kv, ShareNameIdent(ret.req.share_name)).hw >= 2
           /\ share_id # ret.result.share_id
           /\ \E object \in GrantObjects : share_id \in SharedByIds(object)

\* The keys a drop_share transaction deletes.
DropKeys(l) ==
    {ShareNameIdent(l.req.share_name), ShareId(l.at.share_id), ShareIdToName(l.at.share_id)}
        \cup {c.key : c \in Conds(l.at.keys)}

\* What a drop_share transaction of p writes: it deletes the forward record,
\* the ShareMeta, the reverse record and the account records and writes no
\* other record, the ObjectSharedByShareIds and the DbMeta records included.
DropFrame(p) ==
    /\ \A key \in DropKeys(proc[p]) : kv'[key].seq = 0
    /\ DOMAIN kv' = DOMAIN kv
    /\ \A key \in DOMAIN kv \ DropKeys(proc[p]) : kv'[key] = kv[key]

\* C28: a drop_share transaction applied to a share that holds object grants
\* deletes only the forward record, the ShareMeta, the reverse record and the
\* account records; ObjectSharedByShareIds of every granted object and
\* DbMeta.shared_by of the granted database are unchanged and still contain
\* the dropped share_id.
DropLeavesShareId ==
    [][\A p \in DOMAIN proc :
          /\ Moved(p)
          /\ proc[p].pc = "drop_share_txn"
          /\ Post(p).committed
          /\ GrantEntries(MetaOf(proc[p].at.share_id)) # {}
          => LET share_id == proc[p].at.share_id
                 share_meta == MetaOf(share_id)
             IN  /\ DropFrame(p)
                 /\ \A e \in GrantEntries(share_meta) :
                        /\ kv'[ObjectKey(e.object)] = kv[ObjectKey(e.object)]
                        /\ share_id \in kv'[ObjectKey(e.object)].val.share_ids
                 /\ IsSome(share_meta.database) =>
                        LET db_id == Unwrap(share_meta.database).object.id
                        IN  /\ kv'[DatabaseId(db_id)] = kv[DatabaseId(db_id)]
                            /\ share_id \in kv'[DatabaseId(db_id)].val.shared_by]_vars

\* The frame half alone: whatever the share holds, an applied drop_share
\* transaction writes only the records it deletes.
DropShareFrame ==
    [][\A p \in DOMAIN proc :
          Moved(p) /\ proc[p].pc = "drop_share_txn" /\ Post(p).committed => DropFrame(p)]_vars

(***************************************************************************)
(* The read-only operations: show_shares, get_share_grant_objects,         *)
(* get_grant_tenants_of_share and get_grant_privileges_of_object.  Each    *)
(* KV read that a concurrent transaction of the share API can change is a  *)
(* step of its own; none of them has a retry loop.                         *)
(***************************************************************************)
DatabaseIdToName(db_id) == Key("DatabaseIdToName", "", "", db_id)
TableIdToName(table_id) == Key("TableIdToName", "", "", table_id)

\* The reverse name records of the catalog: d1 and its table t1 resolve back
\* to their names; the DatabaseIdToName record of d2 is gone, the case
\* get_share_database_name and get_object_name_from_id provide for.
CatalogNames ==
    (DatabaseIdToName(1) :> Stored(<<Tenant, "d1">>)) @@
    (TableIdToName(1) :> Stored([db_id |-> 1, table_name |-> "t1"])) @@
    (TableIdToName(2) :> Stored([db_id |-> 2, table_name |-> "t2"]))

\* The reply of a read-only call: Ok with the items, or the error.
ReadReply(kind, items) ==
    [kind |-> kind, share_id |-> 0, op |-> "", times |-> 0, items |-> items]
ReadErr(kind) == ReadReply(kind, <<>>)

\* iter() of a BTreeSet<u64>: ascending.
RECURSIVE Ascending(_)
Ascending(ids) ==
    IF ids = {} THEN <<>>
    ELSE LET m == CHOOSE x \in ids : \A y \in ids : x <= y
         IN  <<m>> \o Ascending(ids \ {m})

\* get_object_name_from_id: None when the id has no reverse name record.
get_object_name_from_id(database_name, object) ==
    IF object.kind = "Database"
    THEN IF Exists(DatabaseIdToName(object.id))
         THEN Some(DbName(GetVal(DatabaseIdToName(object.id))[2]))
         ELSE None
    ELSE IF Exists(TableIdToName(object.id))
         THEN Some(TableName(Unwrap(database_name),
                             GetVal(TableIdToName(object.id)).table_name))
         ELSE None

\* get_share_database_name: [err, database_name]; UnknownShare when the
\* database of the share has no reverse name record.
get_share_database_name(share_meta) ==
    IF IsSome(share_meta.database)
    THEN LET entry == Unwrap(share_meta.database)
         IN  IF entry.object.kind = "Table"
             THEN [err |-> "WrongShare", database_name |-> None]
             ELSE IF ~Exists(DatabaseIdToName(entry.object.id))
             THEN [err |-> "UnknownShare", database_name |-> None]
             ELSE [err |-> "",
                   database_name |-> Some(GetVal(DatabaseIdToName(entry.object.id))[2])]
    ELSE [err |-> "", database_name |-> None]

\* ShareAccountReply { share_name, database_name, accounts }
ShareAccountReply(share_name, database_name, accounts) ==
    [share_name |-> share_name, database_name |-> database_name, accounts |-> accounts]

\* get_outbound_shared_accounts_by_name after get_share_or_err returned
\* share_meta: [err, reply].
OutboundReply(share_name, share_meta) ==
    LET database == get_share_database_name(share_meta)
    IN  [err |-> database.err,
         reply |-> ShareAccountReply(share_name, database.database_name,
                                     Some(share_meta.accounts))]

\* get_outbound_shared_accounts_by_name, its reads taken together: the
\* records of a share are created and deleted by one transaction.
get_outbound_shared_accounts_by_name(share_name) ==
    LET name_key == ShareNameIdent(share_name)
        id_key == ShareId(GetVal(name_key))
    IN  IF GetSeq(name_key) = 0
        THEN [err |-> "UnknownShare", reply |-> ShareAccountReply(share_name, None, None)]
        ELSE IF GetSeq(id_key) = 0
        THEN [err |-> "UnknownShareId", reply |-> ShareAccountReply(share_name, None, None)]
        ELSE OutboundReply(share_name, GetVal(id_key))

\* get_share_or_err of a read-only call, its first read.
ReadGetName(p, pc, next) ==
    LET l == [ReadShareName(proc[p]) EXCEPT !.retry = 0]
    IN  /\ proc[p].pc = pc
        /\ Step(p, IF l.at.share_id_seq = 0 THEN Return(l, ReadErr("UnknownShare"))
                   ELSE [l EXCEPT !.pc = next])

\* ---- get_share_grant_objects ----
get_share_grant_objects_call(p) ==
    \E name \in ShareNames :
        Call(p, "get_share_grant_objects", Req(name), "get_share_grant_objects_get_name")

get_share_grant_objects_get_name(p) ==
    ReadGetName(p, "get_share_grant_objects_get_name", "get_share_grant_objects_get_meta")

\* Faulty variant: the reply leaves out the database entry.
ShareGrantReplyObjects_without_database_entry(share_meta) ==
    LET database == get_object_name_from_id(None, Unwrap(share_meta.database).object)
        database_name == Some(Unwrap(database).db)
    IN  IF ~IsSome(share_meta.database) \/ ~IsSome(database) THEN {}
        ELSE {[object |-> Unwrap(get_object_name_from_id(database_name, e.object)),
               privileges |-> e.privileges] :
                  e \in {x \in share_meta.entries :
                            IsSome(get_object_name_from_id(database_name, x.object))}}

\* The objects of the reply: every entry, the database entry included, whose
\* id resolves back to a name.
ShareGrantReplyObjects(share_meta) ==
    LET database == get_object_name_from_id(None, Unwrap(share_meta.database).object)
        database_name == Some(Unwrap(database).db)
    IN  IF ~IsSome(share_meta.database) \/ ~IsSome(database) THEN {}
        ELSE {[object |-> Unwrap(get_object_name_from_id(database_name, e.object)),
               privileges |-> e.privileges] :
                  e \in {x \in share_meta.entries \cup {Unwrap(share_meta.database)} :
                            IsSome(get_object_name_from_id(database_name, x.object))}}

get_share_grant_objects_get_meta(p) ==
    LET l == ReadShareMeta(proc[p])
    IN  /\ proc[p].pc = "get_share_grant_objects_get_meta"
        /\ Step(p, IF l.at.share_meta_seq = 0 THEN Return(l, ReadErr("UnknownShareId"))
                   ELSE Return(l, ReadReply("Ok", ShareGrantReplyObjects(l.at.share_meta))))

\* ---- get_grant_tenants_of_share ----
get_grant_tenants_of_share_call(p) ==
    \E name \in ShareNames :
        Call(p, "get_grant_tenants_of_share", Req(name),
             "get_grant_tenants_of_share_get_name")

get_grant_tenants_of_share_get_name(p) ==
    ReadGetName(p, "get_grant_tenants_of_share_get_name",
                "get_grant_tenants_of_share_get_meta")

get_grant_tenants_of_share_get_meta(p) ==
    LET l == ReadShareMeta(proc[p])
        res == OutboundReply(l.req.share_name, l.at.share_meta)
    IN  /\ proc[p].pc = "get_grant_tenants_of_share_get_meta"
        /\ Step(p, IF l.at.share_meta_seq = 0 THEN Return(l, ReadErr("UnknownShareId"))
                   ELSE IF res.err # "" THEN Return(l, ReadErr(res.err))
                   ELSE Return(l, ReadReply("Ok", Unwrap(res.reply.accounts))))

\* ---- get_grant_privileges_of_object ----
get_grant_privileges_of_object_call(p) ==
    Call(p, "get_grant_privileges_of_object", Req(<<Tenant, "">>),
         "get_grant_privileges_of_object_get_object")

\* The privileges of the reply: one item for every entry that was found.
ObjectGrantPrivileges(entries) ==
    {[share_name |-> entries[i].share_name,
      privileges |-> Unwrap(entries[i].entry).privileges] :
         i \in {j \in 1..Len(entries) : IsSome(entries[j].entry)}}

\* The name reads of the object (db_has_to_exist, table_has_to_exist) and
\* get_object_shared_by_share_ids.
get_grant_privileges_of_object_get_object(p) ==
    /\ proc[p].pc = "get_grant_privileges_of_object_get_object"
    /\ \E obj_name \in Choices(proc[p], "object", ObjectNames) :
           LET l == WithObject(proc[p], obj_name)
               db_name_key == DatabaseNameIdent(l.req.share_name[1], obj_name.db)
               db_id == GetVal(db_name_key)
               table_name_key == DBIdTableName(db_id, obj_name.table)
               object == IF obj_name.kind = "Database"
                         THEN ShareGrantObject("Database", db_id)
                         ELSE ShareGrantObject("Table", GetVal(table_name_key))
               share_ids == IF Exists(ObjectKey(object))
                            THEN GetVal(ObjectKey(object)).share_ids ELSE {}
           IN  Step(p, IF GetSeq(db_name_key) = 0 THEN Return(l, ReadErr("UnknownDatabase"))
                       ELSE IF obj_name.kind = "Table" /\ GetSeq(table_name_key) = 0
                       THEN Return(l, ReadErr("UnknownTable"))
                       ELSE IF share_ids = {} THEN Return(l, ReadReply("Ok", {}))
                       ELSE [l EXCEPT !.at.seq_and_id.kind = object.kind,
                                      !.at.seq_and_id.id = object.id,
                                      !.at.todo = Ascending(share_ids),
                                      !.pc = "get_grant_privileges_of_object_get_share"])

\* One turn of `for share_id in share_ids.share_ids.iter()`:
\* get_share_id_to_name_or_err and get_share_meta_by_id_or_err, both with `?`.
get_grant_privileges_of_object_get_share(p) ==
    LET l == proc[p]
        share_id == Head(l.at.todo)
        entries == Append(l.at.keys,
                       [entry |-> get_grant_entry(GetVal(ShareId(share_id)),
                                                  ObjectOf(l.at.seq_and_id)),
                        share_name |-> GetVal(ShareIdToName(share_id))])
    IN  /\ l.pc = "get_grant_privileges_of_object_get_share"
        /\ Step(p, IF GetSeq(ShareIdToName(share_id)) = 0
                   THEN Return(l, ReadErr("UnknownShareId"))
                   ELSE IF GetSeq(ShareId(share_id)) = 0
                   THEN Return(l, ReadErr("UnknownShareId"))
                   ELSE IF Tail(l.at.todo) = <<>>
                   THEN Return(l, ReadReply("Ok", ObjectGrantPrivileges(entries)))
                   ELSE [l EXCEPT !.at.keys = entries, !.at.todo = Tail(@)])

\* ---- show_shares ----
ShowTenants == {"A", "B"}
show_shares_call(p) ==
    \E tenant \in ShowTenants :
        Call(p, "show_shares", Req(<<tenant, "">>), "show_shares_list_outbound")

\* list_keys(ShareNameIdent { tenant, share_name: "" }), in key order.
ListShareNames(tenant) ==
    SelectSeq(<<(<<tenant, "s1">>), (<<tenant, "s2">>)>>,
              LAMBDA name : Exists(ShareNameIdent(name)))

\* list_keys(ShareAccountNameIdent { account, share_id: 0 }): the share ids.
ListShareAccounts(account) ==
    Ascending({share_id \in 1..id_gen : Exists(ShareAccountNameIdent(account, share_id))})

show_shares_list_outbound(p) ==
    LET l == proc[p]
        names == ListShareNames(l.req.share_name[1])
    IN  /\ l.pc = "show_shares_list_outbound"
        /\ Step(p, [l EXCEPT !.at.todo = names,
                             !.pc = IF names = <<>> THEN "show_shares_list_inbound"
                                    ELSE "show_shares_outbound"])

\* Faulty variant: a share that fails to load loses its forward name record.
show_shares_outbound_pruning(p) ==
    LET l == proc[p]
        res == get_outbound_shared_accounts_by_name(Head(l.at.todo))
    IN  /\ l.pc = "show_shares_outbound"
        /\ kv' = IF res.err = "" THEN kv
                 ELSE ApplyOp(kv, txn_op_del(ShareNameIdent(Head(l.at.todo))))
        /\ proc' = [proc EXCEPT ![p] =
               [l EXCEPT !.at.keys = IF res.err = "" THEN Append(@, res.reply) ELSE @,
                         !.at.todo = Tail(@),
                         !.pc = IF Tail(l.at.todo) = <<>> THEN "show_shares_list_inbound"
                                ELSE "show_shares_outbound"]]
        /\ ret' = NoRet
        /\ UNCHANGED <<id_gen, calls>>

\* One turn of the outbound loop: `if let Ok(reply) = reply { push }`.
show_shares_outbound(p) ==
    LET l == proc[p]
        res == get_outbound_shared_accounts_by_name(Head(l.at.todo))
    IN  /\ l.pc = "show_shares_outbound"
        /\ Step(p, [l EXCEPT !.at.keys = IF res.err = "" THEN Append(@, res.reply) ELSE @,
                             !.at.todo = Tail(@),
                             !.pc = IF Tail(l.at.todo) = <<>> THEN "show_shares_list_inbound"
                                    ELSE "show_shares_outbound"])

show_shares_list_inbound(p) ==
    LET l == proc[p]
        share_ids == ListShareAccounts(l.req.share_name[1])
    IN  /\ l.pc = "show_shares_list_inbound"
        /\ Step(p, IF share_ids = <<>> THEN Return(l, ReadReply("Ok", l.at.keys))
                   ELSE [l EXCEPT !.at.todo = share_ids, !.pc = "show_shares_inbound"])

\* Faulty variant: a membership that fails to load is left out.
show_shares_inbound_dropping_errors(p) ==
    LET l == proc[p]
        share_id == Head(l.at.todo)
        share_name == GetVal(ShareIdToName(share_id))
        database == get_share_database_name(GetVal(ShareId(share_id)))
        loaded == /\ GetSeq(ShareId(share_id)) # 0
                  /\ GetSeq(ShareIdToName(share_id)) # 0
                  /\ database.err = ""
                  /\ GetSeq(ShareAccountNameIdent(l.req.share_name[1], share_id)) # 0
        replies == IF loaded
                   THEN Append(l.at.keys,
                               ShareAccountReply(share_name, database.database_name, None))
                   ELSE l.at.keys
    IN  /\ l.pc = "show_shares_inbound"
        /\ Step(p, IF Tail(l.at.todo) = <<>> THEN Return(l, ReadReply("Ok", replies))
                   ELSE [l EXCEPT !.at.keys = replies, !.at.todo = Tail(@)])

\* One turn of the inbound loop: every load is followed by `?`.
show_shares_inbound(p) ==
    LET l == proc[p]
        share_id == Head(l.at.todo)
        share_name == GetVal(ShareIdToName(share_id))
        database == get_share_database_name(GetVal(ShareId(share_id)))
        replies == Append(l.at.keys,
                          ShareAccountReply(share_name, database.database_name, None))
    IN  /\ l.pc = "show_shares_inbound"
        /\ Step(p, IF GetSeq(ShareId(share_id)) = 0 THEN Return(l, ReadErr("UnknownShareId"))
                   ELSE IF GetSeq(ShareIdToName(share_id)) = 0
                   THEN Return(l, ReadErr("UnknownShareId"))
                   ELSE IF database.err # "" THEN Return(l, ReadErr(database.err))
                   ELSE IF GetSeq(ShareAccountNameIdent(l.req.share_name[1], share_id)) = 0
                   THEN Return(l, ReadErr("UnknownShareAccounts"))
                   ELSE IF Tail(l.at.todo) = <<>> THEN Return(l, ReadReply("Ok", replies))
                   ELSE [l EXCEPT !.at.keys = replies, !.at.todo = Tail(@)])

\* The callers of Spec with the read-only operations, started on the
\* populated share and the catalog's reverse name records.
InitRead ==
    /\ kv = SharedStore @@ CatalogNames
    /\ id_gen = 1
    /\ proc = [p \in Procs |-> IdleLocal]
    /\ calls = 0
    /\ ret = NoRet

NextRead ==
    \/ Next
    \/ \E p \in Procs :
        \/ get_share_grant_objects_call(p)
        \/ get_share_grant_objects_get_name(p)
        \/ get_share_grant_objects_get_meta(p)
        \/ get_grant_tenants_of_share_call(p)
        \/ get_grant_tenants_of_share_get_name(p)
        \/ get_grant_tenants_of_share_get_meta(p)
        \/ get_grant_privileges_of_object_call(p)
        \/ get_grant_privileges_of_object_get_object(p)
        \/ get_grant_privileges_of_object_get_share(p)
        \/ show_shares_call(p)
        \/ show_shares_list_outbound(p)
        \/ show_shares_outbound(p)
        \/ show_shares_list_inbound(p)
        \/ show_shares_inbound(p)

SpecRead == InitRead /\ [][NextRead]_vars

(***************************************************************************)
(* Contracts of the read-only operations.                                  *)
(***************************************************************************)
ReadOps ==
    {"show_shares", "get_share_grant_objects", "get_grant_tenants_of_share",
     "get_grant_privileges_of_object"}

\* C25: the call and every step of show_shares, get_share_grant_objects,
\* get_grant_tenants_of_share and get_grant_privileges_of_object, whatever
\* the call returns and whatever calls run beside it, leave every record and
\* every seq of the KV unchanged and allocate no id.
ReadOnly ==
    [][\A p \in DOMAIN proc :
          Moved(p) /\ (proc[p].op \in ReadOps \/ proc'[p].op \in ReadOps) =>
              /\ kv' = kv
              /\ id_gen' = id_gen]_vars

\* A show_shares call has returned a share while a mutating call, started
\* before it returned, is about to send its transaction.
ReadOnlyWitness ==
    /\ ret.pc = "done"
    /\ ret.op = "show_shares"
    /\ ret.result.kind = "Ok"
    /\ Len(ret.result.items) >= 1
    /\ \E q \in DOMAIN proc : proc[q].pc \in TxnPcs

\* C29: a turn of get_grant_privileges_of_object over a member share_id of
\* ObjectSharedByShareIds[object] never fails: it adds one item {share_name,
\* privileges} when the ShareMeta of share_id holds a grant entry of the
\* object and skips the member otherwise, a member left behind by a
\* drop_share included; the call returns success with the items.
PrivilegesSkipMissing ==
    [][\A p \in DOMAIN proc :
          Moved(p) /\ proc[p].pc = "get_grant_privileges_of_object_get_share" =>
              LET share_id == Head(proc[p].at.todo)
                  object == ObjectOf(proc[p].at.seq_and_id)
                  found == /\ ShareExists(share_id)
                           /\ IsSome(get_grant_entry(MetaOf(share_id), object))
                  items == ObjectGrantPrivileges(proc[p].at.keys) \cup
                           (IF found
                            THEN {[share_name |-> GetVal(ShareIdToName(share_id)),
                                   privileges |->
                                       Unwrap(get_grant_entry(MetaOf(share_id),
                                                              object)).privileges]}
                            ELSE {})
              IN  IF Post(p).pc = "done"
                  THEN Post(p).result = ReadReply("Ok", items)
                  ELSE ObjectGrantPrivileges(Post(p).at.keys) = items]_vars

\* Whether show_shares can load the share of a listed name (outbound) and the
\* error, "" if none, that the load of a listed membership meets (inbound).
OutboundLoads(name) ==
    /\ Exists(ShareNameIdent(name))
    /\ ShareExists(GetVal(ShareNameIdent(name)))
    /\ LET database == MetaOf(GetVal(ShareNameIdent(name))).database
       IN  IsSome(database) => Exists(DatabaseIdToName(Unwrap(database).object.id))
InboundError(tenant, share_id) ==
    IF ~ShareExists(share_id) \/ ~Exists(ShareIdToName(share_id)) THEN "UnknownShareId"
    ELSE IF /\ IsSome(MetaOf(share_id).database)
            /\ ~Exists(DatabaseIdToName(Unwrap(MetaOf(share_id).database).object.id))
    THEN "UnknownShare"
    ELSE IF ~Exists(ShareAccountNameIdent(tenant, share_id)) THEN "UnknownShareAccounts"
    ELSE ""

\* C30: a turn of the outbound loop of show_shares never ends the call: the
\* listed share is added to the reply when its ShareMeta and database name
\* load and is left out otherwise; a turn of the inbound loop ends the call
\* with the error when the ShareMeta, the reverse name, the database name or
\* the account record of the listed membership does not load, and adds the
\* membership otherwise.
ShowSharesAsymmetry ==
    [][\A p \in DOMAIN proc :
          Moved(p) =>
              /\ proc[p].pc = "show_shares_outbound" =>
                     LET name == Head(proc[p].at.todo)
                     IN  /\ Post(p).pc \in {"show_shares_outbound", "show_shares_list_inbound"}
                         /\ Post(p).at.keys =
                                IF OutboundLoads(name)
                                THEN Append(proc[p].at.keys,
                                            get_outbound_shared_accounts_by_name(name).reply)
                                ELSE proc[p].at.keys
              /\ proc[p].pc = "show_shares_list_inbound" /\ Post(p).pc = "done" =>
                     Post(p).result = ReadReply("Ok", proc[p].at.keys)
              /\ proc[p].pc = "show_shares_inbound" =>
                     LET err == InboundError(proc[p].req.share_name[1], Head(proc[p].at.todo))
                     IN  IF err # ""
                         THEN Post(p).pc = "done" /\ Post(p).result = ReadErr(err)
                         ELSE IF Post(p).pc = "done"
                         THEN /\ Post(p).result.kind = "Ok"
                              /\ Len(Post(p).result.items) = Len(proc[p].at.keys) + 1
                         ELSE Len(Post(p).at.keys) = Len(proc[p].at.keys) + 1]_vars

\* A show_shares of an account has failed with UnknownShareId: the share of
\* a membership it had listed was dropped before its ShareMeta was loaded.
ShowSharesAsymmetryWitness ==
    /\ ret.pc = "done"
    /\ ret.op = "show_shares"
    /\ ret.req.share_name[1] = "B"
    /\ ret.result = ReadErr("UnknownShareId")
    /\ \E share_id \in AllocatedIds : Dropped(share_id)

(***************************************************************************)
(* The callers of SpecRead on a share that grants a database and a table   *)
(* of it: d1 with t1, whose ids resolve back to names, or d2 with t2,      *)
(* where the reverse name record of the database is gone.                  *)
(***************************************************************************)
ObjectsStore(db_name, db_id, table_name, table_id) ==
    LET name == <<Tenant, "s1">>
        create == [Local("create_share_txn", "create_share", Req(name))
                      EXCEPT !.at.share_id = 1]
        created == ApplyOps(Catalog, create_share_txn_req(create).if_then)
        grant == [Local("grant_share_object_txn", "grant_share_object", Req(name))
                     EXCEPT !.req.object = DbName(db_name),
                            !.req.privilege = {"USAGE"},
                            !.at.share_id_seq = created[ShareNameIdent(name)].seq,
                            !.at.share_id = 1,
                            !.at.share_meta_seq = created[ShareId(1)].seq,
                            !.at.share_meta = created[ShareId(1)].val,
                            !.at.seq_and_id =
                                SeqAndIdDatabase(created[DatabaseId(db_id)].seq, db_id,
                                                 created[DatabaseId(db_id)].val)]
        granted == ApplyOps(created, grant_share_object_txn_req(grant).if_then)
        grant_table ==
            [Local("grant_share_object_txn", "grant_share_object", Req(name))
                EXCEPT !.req.object = TableName(db_name, table_name),
                       !.req.privilege = {"SELECT"},
                       !.at.share_id_seq = granted[ShareNameIdent(name)].seq,
                       !.at.share_id = 1,
                       !.at.share_meta_seq = granted[ShareId(1)].seq,
                       !.at.share_meta = granted[ShareId(1)].val,
                       !.at.seq_and_id =
                           SeqAndIdTable(db_id, granted[TableId(table_id)].seq, table_id)]
    IN  ApplyOps(granted, grant_share_object_txn_req(grant_table).if_then)

InitObjects ==
    /\ kv \in {ObjectsStore("d1", 1, "t1", 1) @@ CatalogNames,
                ObjectsStore("d2", 2, "t2", 2) @@ CatalogNames}
    /\ id_gen = 1
    /\ proc = [p \in Procs |-> IdleLocal]
    /\ calls = 0
    /\ ret = NoRet

SpecObjects == InitObjects /\ [][NextRead]_vars

\* Whether the id of a granted object resolves back to a name, and the name.
IdResolves(object) ==
    IF object.kind = "Database" THEN Exists(DatabaseIdToName(object.id))
    ELSE Exists(TableIdToName(object.id))
NameOfObject(share_meta, object) ==
    LET db_name == GetVal(DatabaseIdToName(Unwrap(share_meta.database).object.id))[2]
    IN  IF object.kind = "Database" THEN DbName(db_name)
        ELSE TableName(db_name, GetVal(TableIdToName(object.id)).table_name)

\* C31 (as stated): get_share_grant_objects on an existing share whose
\* ShareMeta.database is present returns one item for the database entry and
\* for every table entry whose id resolves to a name.
GrantObjectsListsResolving ==
    [][\A p \in DOMAIN proc :
          /\ Moved(p)
          /\ proc[p].pc = "get_share_grant_objects_get_meta"
          /\ ShareExists(proc[p].at.share_id)
          => /\ Post(p).result.kind = "Ok"
             /\ Cardinality(Post(p).result.items) =
                    Cardinality({e \in GrantEntries(MetaOf(proc[p].at.share_id)) :
                                    IdResolves(e.object)})]_vars

\* C31: get_share_grant_objects fails with UnknownShare on a share name
\* without record; on an existing share it returns an empty object list when
\* ShareMeta.database is absent or the id of the database entry does not
\* resolve to a name, and otherwise one {object name, privileges} item for
\* the database entry and for every table entry whose id resolves, leaving
\* out the entries whose id does not resolve.
GrantObjectsReply ==
    [][\A p \in DOMAIN proc :
          Moved(p) =>
              /\ /\ proc[p].pc = "get_share_grant_objects_get_name"
                 /\ ~Exists(ShareNameIdent(proc[p].req.share_name))
                 => Post(p).pc = "done" /\ Post(p).result = ReadErr("UnknownShare")
              /\ /\ proc[p].pc = "get_share_grant_objects_get_meta"
                 /\ ShareExists(proc[p].at.share_id)
                 => LET share_meta == MetaOf(proc[p].at.share_id)
                        objects ==
                            IF \/ ~IsSome(share_meta.database)
                               \/ ~IdResolves(Unwrap(share_meta.database).object)
                            THEN {}
                            ELSE {[object |-> NameOfObject(share_meta, e.object),
                                   privileges |-> e.privileges] :
                                      e \in {x \in GrantEntries(share_meta) :
                                                IdResolves(x.object)}}
                    IN  /\ Post(p).pc = "done"
                        /\ Post(p).result = ReadReply("Ok", objects)]_vars

\* A get_share_grant_objects call has returned the database and a table of
\* the share.
GrantObjectsReplyWitness ==
    /\ ret.pc = "done"
    /\ ret.op = "get_share_grant_objects"
    /\ ret.result.kind = "Ok"
    /\ \E o1, o2 \in ret.result.items :
           o1.object.kind = "Database" /\ o2.object.kind = "Table"

\* C32: a committed grant_share_object of a Database writes the DbMeta
\* record, with share_id added to shared_by, only when share_id is not in
\* shared_by, and otherwise leaves the record and its seq unchanged; a
\* committed revoke_share_object of a Database always writes the DbMeta
\* record, with share_id removed from shared_by, whether or not the set
\* changes and whether or not privilege bits remain; grant and revoke of a
\* Table write no DbMeta record.
DbMetaWritePaths ==
    [][\A p \in DOMAIN proc :
          /\ Moved(p)
          /\ proc[p].pc \in {"grant_share_object_txn", "revoke_share_object_txn"}
          /\ Post(p).committed
          => LET share_id == proc[p].at.share_id
                 db_key == DatabaseId(proc[p].at.seq_and_id.db_id)
                 old == kv[db_key].val.shared_by
                 Written(ids) == /\ kv'[db_key].seq > kv[db_key].seq
                                 /\ kv'[db_key].val = [shared_by |-> ids]
             IN  /\ \A db_id \in DbIds :
                        DatabaseId(db_id) # db_key =>
                            kv'[DatabaseId(db_id)] = kv[DatabaseId(db_id)]
                 /\ IF proc[p].at.seq_and_id.kind = "Table"
                    THEN kv'[db_key] = kv[db_key]
                    ELSE IF proc[p].pc = "grant_share_object_txn"
                    THEN IF share_id \in old THEN kv'[db_key] = kv[db_key]
                         ELSE Written(old \cup {share_id})
                    ELSE Written(old \ {share_id})]_vars

\* Two revokes of privileges of the granted database have committed: the
\* second wrote DbMeta although shared_by was empty before it.
DbMetaWritePathsWitness ==
    /\ ret.pc = "done"
    /\ ret.op = "revoke_share_object"
    /\ ret.committed
    /\ ret.req.object = DbName("d1")
    /\ kv[DatabaseId(1)].seq = SharedStore[DatabaseId(1)].seq + 2
    /\ kv[DatabaseId(1)].val.shared_by = {}

\* C33: a call that returns an error has committed no transaction: the step
\* that returns the error leaves the store unchanged, no transaction of the
\* call was applied before, and every change of the store is made by the
\* step of a call that returns success in that step.
ErrorsCommitNothing ==
    /\ [](ret.pc = "done" /\ ret.result.kind # "Ok" => ~ret.committed)
    /\ [][\A p \in DOMAIN proc :
             Moved(p) /\ Post(p).pc = "done" /\ Post(p).result.kind # "Ok" => kv' = kv]_vars
    /\ [][kv' # kv =>
             \E p \in DOMAIN proc :
                 /\ Moved(p)
                 /\ Post(p).pc = "done"
                 /\ Post(p).result.kind = "Ok"
                 /\ Post(p).committed]_vars

\* A call has returned a domain error in a later attempt, after a
\* transaction of its first attempt had failed.
ErrorsCommitNothingWitness ==
    /\ ret.pc = "done"
    /\ ret.result.kind \in {"UnknownShare", "UnknownShareId", "UnknownShareAccounts",
                             "ShareAlreadyExists", "ShareAccountsAlreadyExists",
                             "WrongShareObject"}
    /\ ret.submitted >= 1

(***************************************************************************)
(* A race of account updates: calls of add_share_tenants and               *)
(* remove_share_tenants of one account each, B or C, run concurrently on   *)
(* the share s1, started without accounts or with B.                       *)
(***************************************************************************)
\* Number of account calls started in the race.
MaxAccountCalls == 3

RacedAccounts == {"B", "C"}
AccountReqs ==
    {[Req(RacedName) EXCEPT !.accounts = <<a>>, !.set = {"accounts"}] : a \in RacedAccounts}

account_race_call(p) ==
    \E op \in {"add_share_tenants", "remove_share_tenants"}, req \in AccountReqs :
        Invoke(p, op, req, FirstPc[op], MaxAccountCalls)

InitAccounts ==
    /\ kv \in {GrantedStore, SharedStore}
    /\ id_gen = 1
    /\ proc = [p \in Procs |-> IdleLocal]
    /\ calls = 0
    /\ ret = NoRet

NextAccounts ==
    \E p \in Procs :
        \/ account_race_call(p)
        \/ add_share_tenants_get_name(p)
        \/ add_share_tenants_get_meta(p)
        \/ add_share_tenants_txn(p)
        \/ remove_share_tenants_get_name(p)
        \/ remove_share_tenants_get_meta(p)
        \/ remove_share_tenants_get_account(p)
        \/ remove_share_tenants_txn(p)

SpecAccounts == InitAccounts /\ [][NextAccounts]_vars

\* C34: no account update is lost in a race of add_share_tenants and
\* remove_share_tenants calls of one account each on the same share.  The
\* record of an account is written only by the transactions that add or
\* remove that account, so it tells the last committed update of the
\* account: at every moment ShareMeta.accounts holds exactly the accounts
\* whose last committed update was an add, whatever the other calls
\* committed in between, and a call that returns success finds its own
\* update in ShareMeta.accounts.
AccountUpdatesKept ==
    LET share_id == GetVal(ShareNameIdent(RacedName))
        accounts == MetaOf(share_id).accounts
    IN  /\ \A a \in RacedAccounts :
               a \in accounts <=> Exists(ShareAccountNameIdent(a, share_id))
        /\ ret.pc = "done" /\ ret.result = Ok =>
               IF ret.op = "add_share_tenants"
               THEN Listed(ret.req) \subseteq accounts
               ELSE Listed(ret.req) \cap accounts = {}

\* add_share_tenants(s1, [C]) has committed on its second attempt: its first
\* transaction failed because a concurrent add_share_tenants(s1, [B]) had
\* committed after it read ShareMeta, and the share holds both B and C.
AccountUpdatesKeptWitness ==
    /\ ret.pc = "done"
    /\ ret.op = "add_share_tenants"
    /\ ret.req.accounts = <<"C">>
    /\ ret.result = Ok
    /\ ret.submitted = 2
    /\ Get(kv, ShareId(1)).hw = GrantedStore[ShareId(1)].hw + 2
    /\ MetaOf(1).accounts = {"B", "C"}

(***************************************************************************)
(* A race of grants: calls of grant_share_object of the database d1 or of  *)
(* its table t1 run concurrently on the shares s1 and s2, started on the   *)
(* two shares without grants or with d1 granted to both.                   *)
(***************************************************************************)
\* Number of grant_share_object calls started in the race.
MaxGrantCalls == 3

\* The store after create_share of `name` has committed with id share_id.
CreateShareOn(store, name, share_id) ==
    LET create == [Local("create_share_txn", "create_share", Req(name))
                      EXCEPT !.at.share_id = share_id]
    IN  ApplyOps(store, create_share_txn_req(create).if_then)

\* The store after grant_share_object(name, Database db_name, {USAGE}) has
\* committed on `store`.
GrantDatabaseOn(store, name, share_id, db_name, db_id) ==
    LET shared_by == Get(store, ObjectKey(ShareGrantObject("Database", db_id)))
        grant == [Local("grant_share_object_txn", "grant_share_object", Req(name))
                     EXCEPT !.req.object = DbName(db_name),
                            !.req.privilege = {"USAGE"},
                            !.at.share_id_seq = Get(store, ShareNameIdent(name)).seq,
                            !.at.share_id = share_id,
                            !.at.share_meta_seq = Get(store, ShareId(share_id)).seq,
                            !.at.share_meta = Get(store, ShareId(share_id)).val,
                            !.at.seq_and_id =
                                SeqAndIdDatabase(Get(store, DatabaseId(db_id)).seq, db_id,
                                                 Get(store, DatabaseId(db_id)).val),
                            !.at.share_ids_seq = shared_by.seq,
                            !.at.share_ids = IF shared_by.seq > 0 THEN shared_by.val
                                             ELSE ObjectSharedByShareIds({})]
    IN  ApplyOps(store, grant_share_object_txn_req(grant).if_then)

TwoShares == CreateShareOn(CreateShareOn(Catalog, <<Tenant, "s1">>, 1), <<Tenant, "s2">>, 2)
TwoSharesOfDatabase ==
    GrantDatabaseOn(GrantDatabaseOn(TwoShares, <<Tenant, "s1">>, 1, "d1", 1),
                    <<Tenant, "s2">>, 2, "d1", 1)

RacedObjects == {DbName("d1"), TableName("d1", "t1")}

grant_share_object_race_call(p) ==
    \E name \in ShareNames, object \in RacedObjects :
        Invoke(p, "grant_share_object",
               [Req(name) EXCEPT !.object = object, !.set = {"object"}],
               "grant_share_object_get_name", MaxGrantCalls)

InitGrant ==
    /\ kv \in {TwoShares, TwoSharesOfDatabase}
    /\ id_gen = 2
    /\ proc = [p \in Procs |-> IdleLocal]
    /\ calls = 0
    /\ ret = NoRet

NextGrant ==
    \E p \in Procs :
        \/ grant_share_object_race_call(p)
        \/ grant_share_object_get_name(p)
        \/ grant_share_object_get_object(p)
        \/ grant_share_object_txn(p)

SpecGrant == InitGrant /\ [][NextGrant]_vars

\* C35: no reverse-index update is lost in a race of grant_share_object
\* calls of the two shares on the same database or table.  Only grants run,
\* so the grant entry of an object in a ShareMeta tells that a grant of the
\* object to that share has committed: at every moment every share with an
\* entry of an object is a member of ObjectSharedByShareIds[object] and, for
\* a database, of DbMeta.shared_by, whatever the other share committed in
\* between, and a call that returns success finds its share_id in both.
GrantIndexKept ==
    /\ \A share_id \in AllocatedIds :
           \A e \in GrantEntries(MetaOf(share_id)) :
               /\ share_id \in SharedByIds(e.object)
               /\ e.object.kind = "Database" => share_id \in DbSharedBy(e.object.id)
    /\ ret.pc = "done" /\ ret.op = "grant_share_object" /\ ret.result = Ok =>
           LET share_id == GetVal(ShareNameIdent(ret.req.share_name))
               object == ObjectOfReq(ret.req)
           IN  /\ share_id \in SharedByIds(object)
               /\ object.kind = "Database" => share_id \in DbSharedBy(object.id)

\* grant_share_object(s2, Database d1) has committed on its second attempt:
\* s2 was written by this call alone, so its first transaction failed
\* because the grant of d1 to s1 had committed after it read the reverse
\* index, and both share_ids are in ObjectSharedByShareIds and in shared_by.
GrantIndexKeptWitness ==
    /\ ret.pc = "done"
    /\ ret.op = "grant_share_object"
    /\ ret.req.share_name = <<Tenant, "s2">>
    /\ ret.req.object = DbName("d1")
    /\ ret.result = Ok
    /\ ret.submitted = 2
    /\ Get(kv, ShareId(2)).hw = TwoShares[ShareId(2)].hw + 1
    /\ SharedByIds(ShareGrantObject("Database", 1)) = {1, 2}
    /\ DbSharedBy(1) = {1, 2}

\* C36: a mutating operation commits on its first attempt when no other
\* writer acts between its reads and its transaction.  On the interfering
\* store, as long as one call only has been started (calls = 1), every write
\* other than the caller's own is a foreign commit on a record that the
\* pending transaction pins, and `hit` tells whether one happened in the
\* current attempt: a transaction the caller sends is applied exactly when
\* no foreign commit hit the attempt, so that a transaction fails only after
\* such a write; a call that no foreign commit hit makes one attempt, sends
\* at most one transaction, which is applied, and does not return
\* TxnRetryMaxTimes.
SoloCommits ==
    /\ [][\A p \in DOMAIN proc :
             Moved(p) /\ calls = 1 /\ proc[p].pc \in TxnPcs
                 /\ Post(p).submitted = proc[p].submitted + 1 =>
                     (Post(p).committed <=> ~proc[p].hit)]_vars
    /\ [](ret.pc = "done" /\ calls = 1 /\ ret.injected = 0 =>
             /\ ret.retry = 1
             /\ ret.submitted <= 1
             /\ ret.submitted = 1 => ret.committed
             /\ ret.result.kind # "TxnRetryMaxTimes")

\* revoke_share_object, the only call started, has committed on its first
\* attempt, with no foreign commit between its reads and its transaction.
SoloCommitsWitness ==
    /\ ret.pc = "done"
    /\ calls = 1
    /\ ret.op = "revoke_share_object"
    /\ ret.injected = 0
    /\ ret.retry = 1
    /\ ret.submitted = 1
    /\ ret.committed
    /\ ret.result = Ok
====
